---- MODULE Spec2Model ----
(***************************************************************************)
(* Model of program_files/create_objects.py of SESMG: the construction of  *)
(* oemof components (buses, sources, sinks, transformers, storages, links) *)
(* from the rows of a scenario workbook.                                    *)
(*                                                                         *)
(* A build is a sequence of builder calls.  buses() runs first and returns *)
(* the bus registry; the builder classes are then constructed in any       *)
(* order.  Every builder iterates over the rows of its sheet; one action   *)
(* of the model is one iteration of such a loop (the whole loop body with  *)
(* every method it calls), the code before the loop, or the code after it. *)
(* The rows are inputs: each iteration draws its row from a finite set.    *)
(* An uncaught exception ends the build (pc = "failed").                   *)
(***************************************************************************)
EXTENDS Integers, Sequences, FiniteSets, TLC

VARIABLES
    pc,         \* position of the build: "start", "buses", "idle", a builder, "failed"
    nodes,      \* the shared list 'nodes' handed to every builder
    busd,       \* the dictionary returned by buses() and handed to the builders
    self_busd,  \* busd of the running call: local busd of buses(), self.busd of a class
    intern,     \* class intern list of the running builder (nodes_sources, ...)
    tables,     \* the rows iterated so far, per sheet
    err,        \* the exception that ended the build, or NoErr
    done,       \* the builders that have returned
    nextId,     \* identity of the next solph.Bus object
    csv,        \* interim_data/weather_data.csv: "absent", "stale", "own" or "other"
    log,        \* the rows a warning was logged for
    energysystem, \* first row of the 'energysystem' sheet of the workbook
    data,       \* the weather data the builders last read from the csv: "none" or its origin
    build       \* the number of the build in this process

vars == <<pc, nodes, busd, self_busd, intern, tables, err, done, nextId, csv, log, energysystem, data, build>>

----------------------------------------------------------------------------
(* Bounds of the model. *)

\* rows of the 'buses' sheet
MaxBusRows == 2
\* time steps of a feed-in series
MaxT == 2
\* rows of a component sheet when the series of its rows vary
MaxFeedinRows == 1
\* occupants of a richardson sink row
MaxOccupants == 6
\* rows of the component sheets of one build, all sheets together
MaxRows == 2
\* builds of one process
MaxBuilds == 2

----------------------------------------------------------------------------
(* Python values. *)

Sheets == {"buses", "sources", "demand", "transformers", "storages", "links"}

NoErr == [type |-> "none", msg |-> "", sheet |-> "", row |-> 0]

\* An exception raised while row 'i' of 'sheet' is processed.
Raise(type, msg, sheet, i) == [type |-> type, msg |-> msg, sheet |-> sheet, row |-> i]

\* dict[key] = value
DictSet(d, k, v) == [x \in DOMAIN d \cup {k} |-> IF x = k THEN v ELSE d[x]]

EmptyDict == [x \in {} |-> 0]

\* A mutation of Truthy: every cell counts as set.
TruthyOfAnyCell(cell) == TRUE

\* pandas truth value of a 0/1 cell
Truthy(cell) == cell # 0

\* solph.Flow(**kwargs): the keyword arguments given
Flow(kwargs) == kwargs

\* solph.Bus(label=...): a new object, 'id' is its identity
Bus(label, id, src) ==
    [kind |-> "Bus", label |-> label, id |-> id, inputs |-> EmptyDict,
     outputs |-> EmptyDict, conversion_factors |-> EmptyDict, src |-> src]

\* solph.Sink(label=..., inputs=...)
Sink(label, inputs, src) ==
    [kind |-> "Sink", label |-> label, id |-> 0, inputs |-> inputs,
     outputs |-> EmptyDict, conversion_factors |-> EmptyDict, src |-> src]

\* solph.Source(label=..., outputs=...)
Source(label, outputs, src) ==
    [kind |-> "Source", label |-> label, id |-> 0, inputs |-> EmptyDict,
     outputs |-> outputs, conversion_factors |-> EmptyDict, src |-> src]

\* solph.Transformer(label=..., inputs=..., outputs=..., conversion_factors=...)
Transformer(label, inputs, outputs, cf, src) ==
    [kind |-> "Transformer", label |-> label, id |-> 0, inputs |-> inputs,
     outputs |-> outputs, conversion_factors |-> cf, src |-> src]

\* solph.Investment(...)
Investment(ep_costs, pcc, minimum, maximum, existing, nonconvex, offset) ==
    [ep_costs |-> ep_costs, periodical_constraint_costs |-> pcc,
     minimum |-> minimum, maximum |-> maximum, existing |-> existing,
     nonconvex |-> nonconvex, offset |-> offset]

\* 'True if row['Non-Convex Investment'] == 1 else False'
NonConvex(cell) == cell = 1

----------------------------------------------------------------------------
(* Numbers.  A float that the code divides is kept exact, as a fraction     *)
(* n/d in lowest terms with d > 0.  An entry of a time series is a number   *)
(* or nan.                                                                  *)

RECURSIVE Gcd(_, _)
Gcd(a, b) == IF b = 0 THEN a ELSE Gcd(b, a % b)
Abs(a) == IF a < 0 THEN -a ELSE a
\* n/d in lowest terms
Q(n, d) == LET g == Gcd(Abs(n), d) IN [n |-> n \div g, d |-> d \div g]
QInt(k) == Q(k, 1)
QMul(a, b) == Q(a.n * b.n, a.d * b.d)
\* a / b for b # 0
QDiv(a, b) == IF b.n < 0 THEN Q(-(a.n * b.d), -(a.d * b.n)) ELSE Q(a.n * b.d, a.d * b.n)
QAdd(a, b) == Q(a.n * b.d + b.n * a.d, a.d * b.d)
QSub(a, b) == Q(a.n * b.d - b.n * a.d, a.d * b.d)
QEq(a, b) == a.n * b.d = b.n * a.d
QLt(a, b) == a.n * b.d < b.n * a.d

Num(v) == [nan |-> FALSE, v |-> v]
NaN == [nan |-> TRUE, v |-> 0]
\* x < c and x > c are False for nan
Lt(x, c) == ~x.nan /\ x.v < c
Gt(x, c) == ~x.nan /\ x.v > c
\* Series.fillna(c)
FillNa(series, c) == [t \in DOMAIN series |-> IF series[t].nan THEN Num(c) ELSE series[t]]
\* series / 1000, for entries that are multiples of 1000
Div1000(series) ==
    [t \in DOMAIN series |->
        IF series[t].nan THEN NaN ELSE Num(series[t].v \div 1000)]

\* The state a builder method works on: its intern list, its busd, the next
\* object identity, and the exception it raised.
St(nl, bd, id) == [nodes |-> nl, busd |-> bd, nextId |-> id, err |-> NoErr]
Fail(st, e) == [st EXCEPT !.err = e]
Failed(st) == st.err # NoErr

----------------------------------------------------------------------------
(* buses(nodes_data, nodes) *)

BusLabels == {"A", "B"}

\* The rows a 'buses' sheet is made of.
BusRows ==
    [label : BusLabels, active : {0, 1}, excess : {0, 1}, shortage : {0, 1},
     excess_costs : {1}, shortage_costs : {2},
     excess_constraint_costs : {0}, shortage_constraint_costs : {0}]

\* The nodes one active row appends: the bus, its excess sink, its shortage source.
BusRowNodes(b, id, src) ==
    <<Bus(b.label, id, src)>>
    \o (IF Truthy(b.excess)
        THEN <<Sink(b.label \o "_excess",
                    id :> Flow([variable_costs |-> b.excess_costs,
                                emission_factor |-> b.excess_constraint_costs]),
                    src)>>
        ELSE <<>>)
    \o (IF Truthy(b.shortage)
        THEN <<Source(b.label \o "_shortage",
                      id :> Flow([variable_costs |-> b.shortage_costs,
                                  emission_factor |-> b.shortage_constraint_costs]),
                      src)>>
        ELSE <<>>)

\* busd = {}
BusesCall ==
    /\ pc = "start"
    /\ pc' = "buses"
    /\ self_busd' = EmptyDict
    /\ UNCHANGED <<nodes, busd, intern, tables, err, done, nextId, csv, log, energysystem, data, build>>

\* One iteration of 'for i, b in nodes_data['buses'].iterrows()'.
BusesRow(rows, max) ==
    /\ pc = "buses"
    /\ Len(tables.buses) < max
    /\ \E b \in rows :
        LET i == Len(tables.buses) + 1 IN
        /\ tables' = [tables EXCEPT !.buses = Append(@, b)]
        /\ IF Truthy(b.active)
           THEN /\ nodes' = nodes \o BusRowNodes(b, nextId, <<"buses", i>>)
                /\ self_busd' = DictSet(self_busd, b.label, nextId)
                /\ nextId' = nextId + 1
           ELSE UNCHANGED <<nodes, self_busd, nextId>>
    /\ UNCHANGED <<pc, busd, intern, err, done, csv, log, energysystem, data, build>>

\* return busd
BusesReturn ==
    /\ pc = "buses"
    /\ pc' = "idle"
    /\ busd' = self_busd
    /\ done' = done \cup {"buses"}
    /\ UNCHANGED <<nodes, self_busd, intern, tables, err, nextId, csv, log, energysystem, data, build>>

----------------------------------------------------------------------------
(* class Sources *)

\* The number of component rows iterated so far, all sheets together.
ComponentRows ==
    Len(tables.sources) + Len(tables.demand) + Len(tables.transformers)
    + Len(tables.storages) + Len(tables.links)

\* 'checklist' of create_source
Checklist == {"X", "x", "", "0", "None", "none", "nan"}

\* A row of the 'sources' sheet.  'series' is what the row's technology
\* yields: the feed-in computed by feedinlib, the collector heat computed by
\* oemof.thermal (W/sqm), or the '.fix' / '.max' column of the time_series
\* sheet; 'series_min' is its '.min' column.
SourceRow(label, technology, fixed, output, input, series) ==
    [label |-> label, active |-> 1, fixed |-> fixed, output |-> output,
     input |-> input, technology |-> technology,
     variable_costs |-> 1, variable_constraint_costs |-> 0,
     existing |-> 0, min_invest |-> 0, max_invest |-> 100,
     periodical_costs |-> 10, periodical_constraint_costs |-> 0,
     nonconvex |-> 0, fix_invest_costs |-> 0,
     conversion_factor |-> 2, peripheral_losses |-> Q(1, 10),
     electric_consumption |-> Q(1, 50),
     series |-> series, series_min |-> [t \in DOMAIN series |-> Num(0)]]

\* Sources.create_source(so, timeseries_args, output); output = 0 is None
create_source(st, so, i, timeseries_args, output) ==
    IF output = 0 /\ so.output \notin DOMAIN st.busd
    THEN Fail(st, Raise("KeyError", so.output, "sources", i))
    ELSE
        LET out == IF output = 0 THEN st.busd[so.output] ELSE output
            plain == so.input \in Checklist
            factor == IF plain THEN 1 ELSE so.conversion_factor
            minimum == so.min_invest * factor
            maximum == so.max_invest * factor
            existing == so.existing * factor
            flow == Flow([investment |->
                             Investment(so.periodical_costs,
                                        so.periodical_constraint_costs,
                                        minimum, maximum, existing,
                                        NonConvex(so.nonconvex),
                                        so.fix_invest_costs)]
                         @@ timeseries_args
                         @@ [variable_costs |-> so.variable_costs,
                             emission_factor |-> so.variable_constraint_costs])
        IN [st EXCEPT !.nodes =
                Append(@, Source(so.label, out :> flow, <<"sources", i>>))]

\* A mutation of FixedArgs: the unfixed arguments without 'min'.
FixedArgsNoMin(so, fix, min, max) ==
    IF so.fixed = 1 THEN [fix |-> fix] ELSE [max |-> max]

\* 'args' of timeseries_source, pv_source, windpower_source and
\* solar_heat_source, for a fixed flag of 1 or 0
FixedArgs(so, fix, min, max) ==
    IF so.fixed = 1 THEN [fix |-> fix] ELSE [min |-> min, max |-> max]

\* A mutation of FixedError: the 'else: raise' branch left out.
FixedErrorNever(so) == FALSE

\* the 'else' of the 'fixed' switch: 'raise SystemError(label + " Error in
\* fixed attribute")'
FixedError(so) == so.fixed # 1 /\ so.fixed # 0

\* Sources.commodity_source(so)
commodity_source(st, so, i) == create_source(st, so, i, [min |-> 0, max |-> 1], 0)

\* Sources.timeseries_source(so, filepath)
timeseries_source(st, so, i) ==
    IF FixedError(so)
    THEN Fail(st, Raise("SystemError", so.label \o " Error in fixed attribute",
                        "sources", i))
    ELSE create_source(st, so, i,
                       FixedArgs(so, so.series, so.series_min, so.series), 0)

\* A mutation of PvPrepare: clipping without 'feedin.fillna(0)'.
PvPrepareNoFill(feedin, i) ==
    [t \in DOMAIN feedin |->
        IF Lt(feedin[t], 0) THEN Num(0)
        ELSE IF Gt(feedin[t], 1) THEN Num(1) ELSE feedin[t]]

\* The loop 'for i in range(len(feedin))' of pv_source, from index i on.
RECURSIVE PvPrepare(_, _)
PvPrepare(feedin, i) ==
    IF i > Len(feedin) THEN feedin
    ELSE LET f1 == IF Lt(feedin[i], 0) THEN [feedin EXCEPT ![i] = Num(0)] ELSE feedin
             f2 == IF Gt(f1[i], 1) THEN [f1 EXCEPT ![i] = Num(1)] ELSE f1
             f3 == FillNa(f2, 0)
         IN PvPrepare(f3, i + 1)

\* Sources.pv_source(so, my_weather_pandas_dataframe)
pv_source(st, so, i) ==
    LET feedin == PvPrepare(so.series, 1) IN
    IF FixedError(so)
    THEN Fail(st, Raise("SystemError", so.label \o " Error in fixed attribute",
                        "sources", i))
    ELSE create_source(st, so, i, FixedArgs(so, feedin, 0, feedin), 0)

\* Sources.windpower_source(so, weather_df_wind)
windpower_source(st, so, i) ==
    LET feedin_wind_scaled == so.series IN
    IF FixedError(so)
    THEN Fail(st, Raise("SystemError", so.label \o " Error in fixed attribute",
                        "sources", i))
    ELSE create_source(st, so, i,
                       FixedArgs(so, feedin_wind_scaled, 0, feedin_wind_scaled), 0)

\* A mutation of CollectorFactors: the electric consumption not reduced by
\* the peripheral losses.
CollectorFactorsGross(so, col_bus, input, output) ==
    DictSet(DictSet(col_bus :> QInt(1), input, so.electric_consumption),
            output, QSub(QInt(1), so.peripheral_losses))

\* 'conversion_factors' of the collector transformer of solar_heat_source: a
\* dict literal, a later key replaces an equal earlier one
CollectorFactors(so, col_bus, input, output) ==
    LET keep == QSub(QInt(1), so.peripheral_losses) IN
    DictSet(DictSet(col_bus :> QInt(1),
                    input, QMul(so.electric_consumption, keep)),
            output, keep)

\* Sources.solar_heat_source(so, data)
solar_heat_source(st, so, i) ==
    LET col == so.label \o "_bus"
        src == <<"sources", i>>
        \* col_bus is appended and registered before anything is checked
        s1 == [st EXCEPT !.nodes = Append(@, Bus(col, st.nextId, src)),
                         !.busd = DictSet(@, col, st.nextId),
                         !.nextId = @ + 1]
        known == so.technology \in {"solar_thermal_flat_plate",
                                    "concentrated_solar_power"}
        collectors_heat == Div1000(so.series)
    IN
    IF FixedError(so)
    THEN Fail(s1, Raise("SystemError", so.label \o " Error in fixed attribute",
                        "sources", i))
    ELSE IF ~known
    THEN Fail(s1, Raise("UnboundLocalError", "collectors_heat", "sources", i))
    ELSE
        LET s2 == create_source(s1, so, i,
                                FixedArgs(so, collectors_heat, 0, collectors_heat),
                                st.nextId)
        IN
        IF Failed(s2) THEN s2
        ELSE IF so.input \notin DOMAIN s2.busd
        THEN Fail(s2, Raise("KeyError", so.input, "sources", i))
        ELSE IF so.output \notin DOMAIN s2.busd
        THEN Fail(s2, Raise("KeyError", so.output, "sources", i))
        ELSE
            LET b == s2.busd
                inputs == DictSet(b[col] :> Flow([variable_costs |-> 0]),
                                  b[so.input], Flow([variable_costs |-> 0]))
                outputs == b[so.output] :> Flow([variable_costs |-> 0])
                cf == CollectorFactors(so, b[col], b[so.input], b[so.output])
            IN [s2 EXCEPT !.nodes =
                    Append(@, Transformer(so.label \o "_collector",
                                          inputs, outputs, cf, src))]

\* A mutation of SourcesBody: the solar-thermal builder only for the two
\* technologies the 'elif' names.
SourcesBodyNamedSolar(st, so, i) ==
    IF ~Truthy(so.active) THEN st
    ELSE IF so.technology = "other" THEN commodity_source(st, so, i)
    ELSE IF so.technology = "photovoltaic" THEN pv_source(st, so, i)
    ELSE IF so.technology = "windpower" THEN windpower_source(st, so, i)
    ELSE IF so.technology = "timeseries" THEN timeseries_source(st, so, i)
    ELSE IF so.technology \in {"solar_thermal_flat_plate",
                               "concentrated_solar_power"}
    THEN solar_heat_source(st, so, i)
    ELSE st

\* The body of 'for i, so in nodes_data['sources'].iterrows()'.
SourcesBody(st, so, i) ==
    IF ~Truthy(so.active) THEN st
    ELSE IF so.technology = "other" THEN commodity_source(st, so, i)
    ELSE IF so.technology = "photovoltaic" THEN pv_source(st, so, i)
    ELSE IF so.technology = "windpower" THEN windpower_source(st, so, i)
    ELSE IF so.technology = "timeseries" THEN timeseries_source(st, so, i)
    \* 'elif technology == "solar_thermal_flat_plate" or "concentrated_solar_power"'
    \* is true for every other value
    ELSE solar_heat_source(st, so, i)

\* Sources.__init__ up to the loop: the intern list is emptied, busd copied,
\* interim_data/weather_data.csv read.
SourcesInit ==
    /\ pc = "idle"
    /\ "sources" \notin done
    /\ intern' = <<>>
    /\ self_busd' = busd
    /\ IF csv = "absent"
       THEN /\ pc' = "failed"
            /\ err' = Raise("FileNotFoundError", "weather_data.csv", "sources", 0)
       ELSE /\ pc' = "sources"
            /\ err' = err
    /\ data' = IF csv = "absent" THEN data ELSE csv
    /\ UNCHANGED <<nodes, busd, tables, done, nextId, csv, log, energysystem, build>>

\* A mutation of SourcesRow: self.busd is the caller's dictionary, not a copy
\* of it.
SourcesRowOnCallersBusd(rows, max) ==
    /\ pc = "sources"
    /\ ComponentRows < max
    /\ \E so \in rows :
        LET i == Len(tables.sources) + 1
            st == SourcesBody(St(intern, self_busd, nextId), so, i)
        IN
        /\ tables' = [tables EXCEPT !.sources = Append(@, so)]
        /\ intern' = st.nodes
        /\ self_busd' = st.busd
        /\ busd' = st.busd
        /\ nextId' = st.nextId
        /\ err' = st.err
        /\ pc' = IF Failed(st) THEN "failed" ELSE pc
    /\ UNCHANGED <<nodes, done, csv, log, energysystem, data, build>>

\* One iteration of the loop of Sources.__init__.
SourcesRow(rows, max) ==
    /\ pc = "sources"
    /\ ComponentRows < max
    /\ \E so \in rows :
        LET i == Len(tables.sources) + 1
            st == SourcesBody(St(intern, self_busd, nextId), so, i)
        IN
        /\ tables' = [tables EXCEPT !.sources = Append(@, so)]
        /\ intern' = st.nodes
        /\ self_busd' = st.busd
        /\ nextId' = st.nextId
        /\ err' = st.err
        /\ pc' = IF Failed(st) THEN "failed" ELSE pc
    /\ UNCHANGED <<nodes, busd, done, csv, log, energysystem, data, build>>

\* A mutation of SourcesFlush: the intern list put in front of the nodes
\* created before.
SourcesFlushPrepends ==
    /\ pc = "sources"
    /\ nodes' = intern \o nodes
    /\ pc' = "idle"
    /\ done' = done \cup {"sources"}
    /\ UNCHANGED <<busd, self_busd, intern, tables, err, nextId, csv, log, energysystem, data, build>>

\* Sources.__init__ after the loop: the intern list is appended to nodes.
SourcesFlush ==
    /\ pc = "sources"
    /\ nodes' = nodes \o intern
    /\ pc' = "idle"
    /\ done' = done \cup {"sources"}
    /\ UNCHANGED <<busd, self_busd, intern, tables, err, nextId, csv, log, energysystem, data, build>>

----------------------------------------------------------------------------
(* class Sinks *)

\* 'slps' of Sinks.__init__
Slps == {"efh", "mfh", "gmf", "gpd", "ghd", "gwa", "ggb", "gko", "gbd", "gba",
         "gmk", "gbh", "gga", "gha", "h0", "g0", "g1", "g2", "g3", "g4", "g5",
         "g6", "l0", "l1", "l2"}

\* A row of the 'demand' sheet.  'series' is what the row's load profile
\* yields: the '.fix' / '.max' column of the time_series sheet, the profile
\* computed by demandlib, or the load curve computed by richardsonpy (W);
\* 'series_min' is the '.min' column.
SinkRow(label, load_profile, fixed, input, series, occupants, annual_demand) ==
    [label |-> label, active |-> 1, fixed |-> fixed, input |-> input,
     load_profile |-> load_profile, nominal_value |-> 50,
     annual_demand |-> annual_demand, occupants |-> occupants,
     building_class |-> 1, wind_class |-> 0,
     series |-> series, series_min |-> [t \in DOMAIN series |-> 0]]

\* Sinks.create_sink(de, timeseries_args); 'extra' is what the model keeps of
\* the calls that computed the profile
create_sink(st, de, i, timeseries_args, extra) ==
    IF de.input \notin DOMAIN st.busd
    THEN Fail(st, Raise("KeyError", de.input, "demand", i))
    ELSE [st EXCEPT !.nodes =
            Append(@, Sink(de.label, st.busd[de.input] :> Flow(timeseries_args),
                           <<"demand", i>>) @@ extra)]

\* A mutation of unfixed_sink: the nominal value not handed on.
unfixed_sinkNoNominal(st, de, i) ==
    create_sink(st, de, i, EmptyDict, EmptyDict)

\* Sinks.unfixed_sink(de)
unfixed_sink(st, de, i) ==
    create_sink(st, de, i, [nominal_value |-> de.nominal_value], EmptyDict)

\* Sinks.timeseries_sink(de, filepath)
timeseries_sink(st, de, i) ==
    LET args == [nominal_value |-> de.nominal_value]
        upd == IF de.fixed = 0 THEN [min |-> de.series_min, max |-> de.series]
               ELSE IF de.fixed = 1 THEN [fix |-> de.series]
               ELSE EmptyDict
    IN create_sink(st, de, i, upd @@ args, EmptyDict)

\* Sinks.slp_sink(de, filepath)
slp_sink(st, de, i) ==
    LET demand == de.series
        args == [nominal_value |-> de.annual_demand]
        upd == IF de.fixed = 1 THEN [fix |-> demand]
               ELSE IF de.fixed = 0 THEN [max |-> demand]
               ELSE EmptyDict
    IN create_sink(st, de, i, upd @@ args, EmptyDict)

\* sum(loadcurve)
RECURSIVE SumSeq(_)
SumSeq(q) == IF q = <<>> THEN 0 ELSE Head(q) + SumSeq(Tail(q))

\* the seconds of one time step, 0 for an invalid temporal resolution
Timestep(temp_resolution) ==
    CASE temp_resolution = "H" -> 3600
      [] temp_resolution = "h" -> 3600
      [] temp_resolution = "min" -> 60
      [] temp_resolution = "s" -> 1
      [] OTHER -> 0

\* A mutation of ClampOccupants: the limit off by one.
ClampOccupantsAt6(nb_occ) == IF nb_occ > 6 THEN 6 ELSE nb_occ

\* 'if nb_occ > 5: nb_occ = 5'
ClampOccupants(nb_occ) == IF nb_occ > 5 THEN 5 ELSE nb_occ

\* A mutation of RichardsonDemand: the time step left out.
RichardsonDemandNoTimestep(loadcurve, timestep) ==
    Q(SumSeq(loadcurve), 3600 * 1000)

\* 'sum(el_load_obj.loadcurve) * timestep / (3600 * 1000)'
RichardsonDemand(loadcurve, timestep) ==
    Q(SumSeq(loadcurve) * timestep, 3600 * 1000)

\* Sinks.richardson_sink(de, filepath)
richardson_sink(st, de, i) ==
    LET temp_resolution == energysystem.temporal_resolution
        nb_occ == ClampOccupants(de.occupants)
        timestep == Timestep(temp_resolution)
        \* Occupancy(number_occupants=nb_occ), ElectricLoad(...).loadcurve
        load_profile == de.series
        richardson_demand == RichardsonDemand(load_profile, timestep)
        annual_demand == de.annual_demand
    IN
    IF timestep = 0
    THEN Fail(st, Raise("SystemError", "Invalid Temporal Resolution", "demand", i))
    ELSE
        LET nominal == IF richardson_demand.n = 0 THEN "inf"
                       ELSE QMul(Q(1, 1000),
                                 QDiv(QInt(annual_demand), richardson_demand))
            args == [nominal_value |-> nominal]
            upd == IF de.fixed = 1 THEN [fix |-> load_profile]
                   ELSE IF de.fixed = 0 THEN [max |-> load_profile]
                   ELSE EmptyDict
        IN create_sink(st, de, i, upd @@ args,
                       [number_occupants |-> nb_occ, timestep |-> timestep])

\* A mutation of SinksBody: a closing 'else' that raises for a load profile
\* no branch names.
SinksBodyRaisesOnUnknown(st, de, i) ==
    IF ~Truthy(de.active) THEN st
    ELSE IF de.load_profile = "x" THEN unfixed_sink(st, de, i)
    ELSE IF de.load_profile = "timeseries" THEN timeseries_sink(st, de, i)
    ELSE IF de.load_profile \in Slps THEN slp_sink(st, de, i)
    ELSE IF de.load_profile = "richardson" THEN richardson_sink(st, de, i)
    ELSE Fail(st, Raise("SystemError", de.label \o " Error in load profile",
                        "demand", i))

\* The body of 'for i, de in nodes_data['demand'].iterrows()'.
SinksBody(st, de, i) ==
    IF ~Truthy(de.active) THEN st
    ELSE IF de.load_profile = "x" THEN unfixed_sink(st, de, i)
    ELSE IF de.load_profile = "timeseries" THEN timeseries_sink(st, de, i)
    ELSE IF de.load_profile \in Slps THEN slp_sink(st, de, i)
    ELSE IF de.load_profile = "richardson" THEN richardson_sink(st, de, i)
    ELSE st

\* A mutation of SinksInit: without 'self.nodes_sinks = []', so that the
\* class-level list collects the nodes of every construction.
SinksInitKeepsResidues ==
    /\ pc = "idle"
    /\ "sinks" \notin done
    /\ intern' = intern
    /\ self_busd' = busd
    /\ csv' = "own"
    /\ pc' = "sinks"
    /\ UNCHANGED <<nodes, busd, tables, err, done, nextId, log, energysystem, data, build>>

\* Sinks.__init__ up to the loop: the intern list is emptied, busd copied,
\* the 'weather data' sheet written to interim_data/weather_data.csv.
SinksInit ==
    /\ pc = "idle"
    /\ "sinks" \notin done
    /\ intern' = <<>>
    /\ self_busd' = busd
    /\ csv' = "own"
    /\ pc' = "sinks"
    /\ UNCHANGED <<nodes, busd, tables, err, done, nextId, log, energysystem, data, build>>

\* slp_sink and richardson_sink read interim_data/weather_data.csv.
ReadsWeather(de) ==
    Truthy(de.active) /\ de.load_profile \in Slps \cup {"richardson"}

\* Sinks.__init__ of the build of another scenario, run by another caller:
\* its 'weather data' sheet is written to the same file.
SinksInitOfOtherBuild ==
    /\ pc # "failed"
    /\ csv # "other"
    /\ csv' = "other"
    /\ UNCHANGED <<pc, nodes, busd, self_busd, intern, tables, err, done, nextId, log, energysystem, data, build>>

\* One iteration of the loop of Sinks.__init__.
SinksRow(rows, max) ==
    /\ pc = "sinks"
    /\ ComponentRows < max
    /\ \E de \in rows :
        LET i == Len(tables.demand) + 1
            st == SinksBody(St(intern, self_busd, nextId), de, i)
        IN
        /\ tables' = [tables EXCEPT !.demand = Append(@, de)]
        /\ intern' = st.nodes
        /\ self_busd' = st.busd
        /\ nextId' = st.nextId
        /\ err' = st.err
        /\ pc' = IF Failed(st) THEN "failed" ELSE pc
        /\ data' = IF ReadsWeather(de) THEN csv ELSE data
    /\ UNCHANGED <<nodes, busd, done, csv, log, energysystem, build>>

\* Sinks.__init__ after the loop: the intern list is appended to nodes.
SinksFlush ==
    /\ pc = "sinks"
    /\ nodes' = nodes \o intern
    /\ pc' = "idle"
    /\ done' = done \cup {"sinks"}
    /\ UNCHANGED <<busd, self_busd, intern, tables, err, nextId, csv, log, energysystem, data, build>>

----------------------------------------------------------------------------
(* class Transformers *)

\* A row of the 'transformers' sheet.  'cops' is what oemof.thermal computes
\* for a compression or absorption heat transformer: one coefficient of
\* performance per time step.  'source_temp' is the column of the weather
\* data that belongs to the row's heat source: 'ground_temp',
\* 'groundwater_temp', 'temperature' or 'water_temp', in deg C.
TransformerRow(label, type, input, output, output2, mode, heat_source) ==
    [label |-> label, active |-> 1, transformer_type |-> type,
     input |-> input, output |-> output, output2 |-> output2,
     mode |-> mode, heat_source |-> heat_source,
     efficiency |-> 2, efficiency2 |-> 1,
     variable_input_costs |-> 1, variable_input_constraint_costs |-> 0,
     variable_output_costs |-> 1, variable_output_constraint_costs |-> 0,
     variable_output_costs_2 |-> 1, variable_output_constraint_costs_2 |-> 0,
     existing |-> 4, min_invest |-> 2, max_invest |-> 100,
     periodical_costs |-> 10, periodical_constraint_costs |-> 0,
     nonconvex |-> 0, fix_invest_costs |-> 0,
     area |-> 100, probe_length |-> 10, heat_extraction |-> 1,
     min_borehole_area |-> 50, electrical_input_cf |-> 1,
     temperature_high |-> QInt(40), temperature_low |-> QInt(10),
     temp_threshold_icing |-> QInt(2), factor_icing |-> Q(8, 10),
     quality_grade |-> Q(4, 10),
     source_temp |-> <<QInt(15), QInt(20)>>,
     cops |-> <<Q(3, 1), Q(4, 1)>>]

\* A mutation of create_transformer: '**conversion_factors' left out.
create_transformerNoFactors(st, tf, i, inputs, outputs, conversion_factors) ==
    [st EXCEPT !.nodes =
        Append(@, Transformer(tf.label, inputs, outputs, EmptyDict,
                              <<"transformers", i>>))]

\* Transformers.create_transformer(tf, inputs, outputs, conversion_factors)
create_transformer(st, tf, i, inputs, outputs, conversion_factors) ==
    [st EXCEPT !.nodes =
        Append(@, Transformer(tf.label, inputs, outputs, conversion_factors,
                              <<"transformers", i>>))]

\* A mutation of Capacity2: the efficiency ratio inverted.
Capacity2Inverted(tf, capacity) ==
    QMul(Q(tf.efficiency, tf.efficiency2), QInt(capacity))

\* '(float(tf['efficiency2']) / float(tf['efficiency'])) * float(capacity)'
Capacity2(tf, capacity) ==
    QMul(Q(tf.efficiency2, tf.efficiency), QInt(capacity))

\* Transformers.generic_transformer(tf)
generic_transformer(st, tf, i) ==
    LET b == st.busd
        second == tf.output2 \notin {"None", "none", "x"}
        flow1 == Flow([variable_costs |-> tf.variable_output_costs,
                       emission_factor |-> tf.variable_output_constraint_costs,
                       investment |->
                           Investment(tf.periodical_costs,
                                      tf.periodical_constraint_costs,
                                      tf.min_invest, tf.max_invest, tf.existing,
                                      NonConvex(tf.nonconvex),
                                      tf.fix_invest_costs)])
        flow2 == Flow([variable_costs |-> tf.variable_output_costs_2,
                       emission_factor |-> tf.variable_output_constraint_costs_2,
                       investment |->
                           Investment(0, 0,
                                      Capacity2(tf, tf.min_invest),
                                      Capacity2(tf, tf.max_invest),
                                      Capacity2(tf, tf.existing),
                                      NonConvex(tf.nonconvex),
                                      tf.fix_invest_costs)])
    IN
    IF tf.output \notin DOMAIN b
    THEN Fail(st, Raise("KeyError", tf.output, "transformers", i))
    ELSE IF second /\ tf.output2 \notin DOMAIN b
    THEN Fail(st, Raise("KeyError", tf.output2, "transformers", i))
    ELSE IF tf.input \notin DOMAIN b
    THEN Fail(st, Raise("KeyError", tf.input, "transformers", i))
    ELSE
        LET outputs == IF second
                       THEN DictSet(b[tf.output] :> flow1, b[tf.output2], flow2)
                       ELSE b[tf.output] :> flow1
            cf == IF second
                  THEN DictSet(b[tf.output] :> tf.efficiency,
                               b[tf.output2], tf.efficiency2)
                  ELSE b[tf.output] :> tf.efficiency
            inputs == b[tf.input] :>
                          Flow([variable_costs |-> tf.variable_input_costs,
                                emission_factor |->
                                    tf.variable_input_constraint_costs])
        IN create_transformer(st, tf, i, inputs, outputs, cf)

Modes == {"heat_pump", "chiller"}

\* 'temp' of the heat transformers
Temp(mode) == IF mode = "heat_pump" THEN "_low_temp" ELSE "_high_temp"

HeatSources == {"Ground", "GroundWater", "Air", "Water"}

\* the label suffix of the heat source of a compression heat transformer
HeatSourceSuffix(heat_source) ==
    CASE heat_source = "Ground" -> "_ground_source"
      [] heat_source = "GroundWater" -> "_groundwater_source"
      [] heat_source = "Air" -> "_air_source"
      [] heat_source = "Water" -> "_water_source"

\* The auxiliary bus of a heat transformer: appended to the intern list and
\* registered in busd.
AuxBus(st, bus_label, src) ==
    [st EXCEPT !.nodes = Append(@, Bus(bus_label, st.nextId, src)),
               !.busd = DictSet(@, bus_label, st.nextId),
               !.nextId = @ + 1]

\* Python's None
None == [none |-> TRUE]

\* 'temp_high' of compression_heat_transformer: the row's high temperature in
\* heat pump mode, the temperature of the heat source in chiller mode; for
\* the heat source "Air" a value equal to the row's low temperature is
\* replaced by that temperature + 0.1
TempHigh(tf) ==
    IF tf.mode = "heat_pump" THEN <<tf.temperature_high>>
    ELSE IF tf.heat_source = "Air"
    THEN [t \in DOMAIN tf.source_temp |->
            IF QEq(tf.source_temp[t], tf.temperature_low)
            THEN QAdd(tf.temperature_low, Q(1, 10))
            ELSE tf.source_temp[t]]
    ELSE tf.source_temp

\* 'temp_low' of compression_heat_transformer
TempLow(tf) ==
    IF tf.mode = "heat_pump" THEN tf.source_temp ELSE <<tf.temperature_low>>

\* The keyword arguments of 'cmpr_hp_chiller.calc_cops(...)'
CopArgs(tf) ==
    [temp_high |-> TempHigh(tf),
     temp_low |-> TempLow(tf),
     quality_grade |-> tf.quality_grade,
     temp_threshold_icing |->
         IF tf.mode = "heat_pump" THEN tf.temp_threshold_icing ELSE None,
     factor_icing |-> IF tf.mode = "heat_pump" THEN tf.factor_icing ELSE None,
     mode |-> tf.mode]

\* The transformer appended last, with the arguments its coefficients of
\* performance were computed from.
WithCopArgs(st, args) ==
    [st EXCEPT !.nodes[Len(st.nodes)] = @ @@ [calc_cops |-> args]]

\* Transformers.compression_heat_transformer(tf, data)
compression_heat_transformer(st, tf, i) ==
    LET src == <<"transformers", i>>
        bus_label == tf.label \o Temp(tf.mode) \o "_bus"
        s1 == AuxBus(st, bus_label, src)
        aux == st.nextId
        maximum == IF tf.heat_source = "Ground"
                   THEN QMul(QInt(tf.area),
                             Q(tf.probe_length * tf.heat_extraction,
                               tf.min_borehole_area))
                   ELSE "inf"
    IN
    IF tf.mode \notin Modes
    THEN Fail(st, Raise("UnboundLocalError", "temp", "transformers", i))
    ELSE IF tf.heat_source \notin HeatSources
    THEN Fail(s1, Raise("SystemError",
                        tf.label \o " Error in heat source attribute",
                        "transformers", i))
    ELSE
        LET s2 == [s1 EXCEPT !.nodes =
                      Append(@, Source(tf.label \o Temp(tf.mode)
                                           \o HeatSourceSuffix(tf.heat_source),
                                       aux :> Flow([investment |->
                                                       Investment(0, 0, 0, maximum,
                                                                  0, FALSE, 0),
                                                    variable_costs |-> 0]),
                                       src))]
            b == s2.busd
        IN
        IF tf.input \notin DOMAIN b
        THEN Fail(s2, Raise("KeyError", tf.input, "transformers", i))
        ELSE IF tf.output \notin DOMAIN b
        THEN Fail(s2, Raise("KeyError", tf.output, "transformers", i))
        ELSE
            LET inputs ==
                    DictSet(b[tf.input] :>
                                Flow([variable_costs |-> tf.variable_input_costs,
                                      emission_factor |->
                                          tf.variable_input_constraint_costs]),
                            aux, Flow([variable_costs |-> 0]))
                outputs ==
                    b[tf.output] :>
                        Flow([variable_costs |-> tf.variable_output_costs,
                              emission_factor |->
                                  tf.variable_output_constraint_costs,
                              investment |->
                                  Investment(tf.periodical_costs,
                                             tf.periodical_constraint_costs,
                                             tf.min_invest, tf.max_invest,
                                             tf.existing, FALSE, 0)])
                cf == DictSet(aux :>
                                  [t \in DOMAIN tf.cops |->
                                      QDiv(QDiv(QSub(tf.cops[t], QInt(1)),
                                                tf.cops[t]),
                                           QInt(tf.efficiency))],
                              b[tf.input],
                              [t \in DOMAIN tf.cops |-> QDiv(QInt(1), tf.cops[t])])
            IN WithCopArgs(create_transformer(s2, tf, i, inputs, outputs, cf),
                           CopArgs(tf))

\* solph.components.GenericCHP(label=..., fuel_input=..., electrical_output=...,
\* heat_output=...)
GenericCHP(label, fuel_input, electrical_output, heat_output, src) ==
    [kind |-> "GenericCHP", label |-> label, id |-> 0, inputs |-> fuel_input,
     outputs |-> electrical_output, heat_output |-> heat_output,
     conversion_factors |-> EmptyDict, src |-> src]

\* Transformers.genericchp_transformer(tf, nd)
genericchp_transformer(st, tf, i) ==
    LET b == st.busd IN
    IF tf.input \notin DOMAIN b
    THEN Fail(st, Raise("KeyError", tf.input, "transformers", i))
    ELSE IF tf.output \notin DOMAIN b
    THEN Fail(st, Raise("KeyError", tf.output, "transformers", i))
    ELSE IF tf.output2 \notin DOMAIN b
    THEN Fail(st, Raise("KeyError", tf.output2, "transformers", i))
    ELSE
        [st EXCEPT !.nodes =
            Append(@, GenericCHP(
                tf.label,
                b[tf.input] :>
                    Flow([variable_costs |-> tf.variable_input_costs,
                          emission_factor |-> tf.variable_input_constraint_costs]),
                b[tf.output] :>
                    Flow([investment |->
                              Investment(tf.periodical_costs,
                                         tf.periodical_constraint_costs,
                                         tf.min_invest, tf.max_invest,
                                         tf.existing, FALSE, 0),
                          variable_costs |-> tf.variable_output_costs,
                          emission_factor |-> tf.variable_output_constraint_costs]),
                b[tf.output2] :>
                    Flow([variable_costs |-> tf.variable_output_costs_2,
                          emission_factor |->
                              tf.variable_output_constraint_costs_2]),
                <<"transformers", i>>))]

\* Transformers.absorption_heat_transformer(tf, data)
absorption_heat_transformer(st, tf, i) ==
    LET src == <<"transformers", i>>
        bus_label == tf.label \o Temp(tf.mode) \o "_bus"
        source_label == tf.label \o Temp(tf.mode) \o "_source"
        aux == st.nextId
        s1 == AuxBus(st, bus_label, src)
        s2 == [s1 EXCEPT !.nodes =
                  Append(@, Source(source_label,
                                   aux :> Flow([variable_costs |->
                                                   tf.variable_input_costs]),
                                   src))]
        b == s2.busd
    IN
    IF tf.mode \notin Modes
    THEN Fail(st, Raise("UnboundLocalError", "temp", "transformers", i))
    ELSE IF tf.input \notin DOMAIN b
    THEN Fail(s2, Raise("KeyError", tf.input, "transformers", i))
    ELSE IF tf.output \notin DOMAIN b
    THEN Fail(s2, Raise("KeyError", tf.output, "transformers", i))
    ELSE
        LET inputs ==
                DictSet(b[tf.input] :>
                            Flow([variable_costs |-> tf.variable_input_costs,
                                  emission_factor |->
                                      tf.variable_input_constraint_costs]),
                        aux, Flow([variable_costs |-> 0]))
            outputs ==
                b[tf.output] :>
                    Flow([variable_costs |-> tf.variable_output_costs,
                          emission_factor |-> tf.variable_output_constraint_costs,
                          investment |->
                              Investment(tf.periodical_costs, 0, tf.min_invest,
                                         tf.max_invest, tf.existing, FALSE, 0)])
            cf == DictSet(b[tf.output] :> tf.cops,
                          b[tf.input], tf.electrical_input_cf)
        IN create_transformer(s2, tf, i, inputs, outputs, cf)

\* The transformer types a method of the class creates.
TransformerTypes == {"GenericTransformer", "compression_heat_transformer",
                     "GenericCHP", "absorption_heat_transformer"}

\* The body of 'for i, t in nodes_data['transformers'].iterrows()'; the
\* other types log a warning and create nothing.
TransformersBody(st, t, i) ==
    IF ~Truthy(t.active) THEN st
    ELSE IF t.transformer_type = "GenericTransformer"
    THEN generic_transformer(st, t, i)
    ELSE IF t.transformer_type = "compression_heat_transformer"
    THEN compression_heat_transformer(st, t, i)
    ELSE IF t.transformer_type = "ExtractionTurbineCHP" THEN st
    ELSE IF t.transformer_type = "GenericCHP"
    THEN genericchp_transformer(st, t, i)
    ELSE IF t.transformer_type = "OffsetTransformer" THEN st
    ELSE IF t.transformer_type = "absorption_heat_transformer"
    THEN absorption_heat_transformer(st, t, i)
    ELSE st

\* A mutation of Warned: no warning for the types named in the loop.
WarnedUnknownOnly(t) ==
    /\ Truthy(t.active)
    /\ t.transformer_type \notin TransformerTypes
    /\ t.transformer_type \notin {"ExtractionTurbineCHP", "OffsetTransformer"}

\* 'logging.info('   ' + 'WARNING: ...')' of the loop
Warned(t) == Truthy(t.active) /\ t.transformer_type \notin TransformerTypes

\* Transformers.__init__ up to the loop: self.busd is the caller's busd, the
\* intern list is emptied, interim_data/weather_data.csv read.
TransformersInit ==
    /\ pc = "idle"
    /\ "transformers" \notin done
    /\ intern' = <<>>
    /\ self_busd' = busd
    /\ IF csv = "absent"
       THEN /\ pc' = "failed"
            /\ err' = Raise("FileNotFoundError", "weather_data.csv", "transformers", 0)
       ELSE /\ pc' = "transformers"
            /\ err' = err
    /\ data' = IF csv = "absent" THEN data ELSE csv
    /\ UNCHANGED <<nodes, busd, tables, done, nextId, csv, log, energysystem, build>>

\* One iteration of the loop of Transformers.__init__.  self.busd and the
\* caller's busd are one dictionary.
TransformersRow(rows, max) ==
    /\ pc = "transformers"
    /\ ComponentRows < max
    /\ \E t \in rows :
        LET i == Len(tables.transformers) + 1
            st == TransformersBody(St(intern, self_busd, nextId), t, i)
        IN
        /\ tables' = [tables EXCEPT !.transformers = Append(@, t)]
        /\ intern' = st.nodes
        /\ self_busd' = st.busd
        /\ busd' = st.busd
        /\ nextId' = st.nextId
        /\ err' = st.err
        /\ log' = IF Warned(t) THEN log \cup {<<"transformers", i>>} ELSE log
        /\ pc' = IF Failed(st) THEN "failed" ELSE pc
    /\ UNCHANGED <<nodes, done, csv, energysystem, data, build>>

\* Transformers.__init__ after the loop: the intern list is appended to nodes.
TransformersFlush ==
    /\ pc = "transformers"
    /\ nodes' = nodes \o intern
    /\ pc' = "idle"
    /\ done' = done \cup {"transformers"}
    /\ UNCHANGED <<busd, self_busd, intern, tables, err, nextId, csv, log, energysystem, data, build>>

----------------------------------------------------------------------------
(* class Storages *)

\* A row of the 'storages' sheet.
StorageRow(label, type, bus) ==
    [label |-> label, active |-> 1, storage_type |-> type, bus |-> bus,
     variable_input_costs |-> 1, variable_input_constraint_costs |-> 0,
     variable_output_costs |-> 1, variable_output_constraint_costs |-> 0,
     existing |-> 0, min_invest |-> 0, max_invest |-> 100,
     periodical_costs |-> 10, periodical_constraint_costs |-> 0,
     nonconvex |-> 0, fix_invest_costs |-> 0]

\* solph.components.GenericStorage(label=..., inputs=..., outputs=...,
\* investment=...)
GenericStorage(label, inputs, outputs, investment, src) ==
    [kind |-> "GenericStorage", label |-> label, id |-> 0, inputs |-> inputs,
     outputs |-> outputs, conversion_factors |-> EmptyDict,
     investment |-> investment, src |-> src]

\* A mutation of generic_storage: the bus looked up with busd.get(), which
\* yields None (0) for a missing label.
generic_storageGet(st, s, i) ==
    LET bus == IF s.bus \in DOMAIN st.busd THEN st.busd[s.bus] ELSE 0 IN
    [st EXCEPT !.nodes =
        Append(@, GenericStorage(
            s.label,
            bus :> Flow([variable_costs |-> s.variable_input_costs,
                         emission_factor |-> s.variable_input_constraint_costs]),
            bus :> Flow([variable_costs |-> s.variable_output_costs,
                         emission_factor |-> s.variable_output_constraint_costs]),
            Investment(s.periodical_costs, s.periodical_constraint_costs,
                       s.min_invest, s.max_invest, s.existing,
                       NonConvex(s.nonconvex), s.fix_invest_costs),
            <<"storages", i>>))]

\* Storages.generic_storage(s) and Storages.stratified_thermal_storage(s, data):
\* the flows and the investment of the two are the same.
generic_storage(st, s, i) ==
    IF s.bus \notin DOMAIN st.busd
    THEN Fail(st, Raise("KeyError", s.bus, "storages", i))
    ELSE
        [st EXCEPT !.nodes =
            Append(@, GenericStorage(
                s.label,
                st.busd[s.bus] :>
                    Flow([variable_costs |-> s.variable_input_costs,
                          emission_factor |-> s.variable_input_constraint_costs]),
                st.busd[s.bus] :>
                    Flow([variable_costs |-> s.variable_output_costs,
                          emission_factor |-> s.variable_output_constraint_costs]),
                Investment(s.periodical_costs, s.periodical_constraint_costs,
                           s.min_invest, s.max_invest, s.existing,
                           NonConvex(s.nonconvex), s.fix_invest_costs),
                <<"storages", i>>))]

StorageTypes == {"Generic", "Stratified"}

\* The body of 'for i, s in nodes_data['storages'].iterrows()'.
StoragesBody(st, s, i) ==
    IF ~Truthy(s.active) THEN st
    ELSE IF s.storage_type \in StorageTypes THEN generic_storage(st, s, i)
    ELSE st

\* Storages.__init__ up to the loop.
StoragesInit ==
    /\ pc = "idle"
    /\ "storages" \notin done
    /\ intern' = <<>>
    /\ self_busd' = busd
    /\ IF csv = "absent"
       THEN /\ pc' = "failed"
            /\ err' = Raise("FileNotFoundError", "weather_data.csv", "storages", 0)
       ELSE /\ pc' = "storages"
            /\ err' = err
    /\ data' = IF csv = "absent" THEN data ELSE csv
    /\ UNCHANGED <<nodes, busd, tables, done, nextId, csv, log, energysystem, build>>

\* One iteration of the loop of Storages.__init__.
StoragesRow(rows, max) ==
    /\ pc = "storages"
    /\ ComponentRows < max
    /\ \E s \in rows :
        LET i == Len(tables.storages) + 1
            st == StoragesBody(St(intern, self_busd, nextId), s, i)
        IN
        /\ tables' = [tables EXCEPT !.storages = Append(@, s)]
        /\ intern' = st.nodes
        /\ err' = st.err
        /\ pc' = IF Failed(st) THEN "failed" ELSE pc
    /\ UNCHANGED <<nodes, busd, self_busd, nextId, done, csv, log, energysystem, data, build>>

\* Storages.__init__ after the loop: the intern list is appended to nodes.
StoragesFlush ==
    /\ pc = "storages"
    /\ nodes' = nodes \o intern
    /\ pc' = "idle"
    /\ done' = done \cup {"storages"}
    /\ UNCHANGED <<busd, self_busd, intern, tables, err, nextId, csv, log, energysystem, data, build>>

----------------------------------------------------------------------------
(* class Links *)

\* A row of the 'links' sheet.
LinkRow(label, active, directed, bus_1, bus_2, periodical_costs, efficiency) ==
    [label |-> label, active |-> active, directed |-> directed,
     bus_1 |-> bus_1, bus_2 |-> bus_2, efficiency |-> efficiency,
     variable_output_costs |-> 1, variable_constraint_costs |-> 0,
     existing |-> 0, min_invest |-> 0, max_invest |-> 100,
     periodical_costs |-> periodical_costs, periodical_constraint_costs |-> 0,
     nonconvex |-> 0, fix_invest_costs |-> 0]

\* solph.custom.Link(label=..., inputs=..., outputs=..., conversion_factors=...)
Link(label, inputs, outputs, cf, src) ==
    [kind |-> "Link", label |-> label, id |-> 0, inputs |-> inputs,
     outputs |-> outputs, conversion_factors |-> cf, src |-> src]

\* A mutation of Directedness: any other value taken for undirected.
DirectednessOrX == {"directed", "undirected", "x"}

\* the values of '(un)directed' the loop accepts
Directedness == {"directed", "undirected"}

\* A mutation of EpCosts: the costs halved for a directed link too.
EpCostsAlwaysHalved(link) == Q(link.periodical_costs, 2)

\* A mutation of EpCosts: the costs of an undirected link not halved.
EpCostsNotHalved(link) == QInt(link.periodical_costs)

\* 'ep_costs' of a link row that is directed or undirected
EpCosts(link) ==
    IF link.directed = "directed" THEN QInt(link.periodical_costs)
    ELSE Q(link.periodical_costs, 2)

\* The body of 'for i, link in nodes_data['links'].iterrows()', on the
\* shared list 'nodes'.
LinksBody(st, link, i) ==
    LET b == st.busd
        flow == Flow([variable_costs |-> link.variable_output_costs,
                      emission_factor |-> link.variable_constraint_costs,
                      investment |->
                          Investment(EpCosts(link),
                                     link.periodical_constraint_costs,
                                     link.min_invest, link.max_invest,
                                     link.existing, NonConvex(link.nonconvex),
                                     link.fix_invest_costs)])
    IN
    IF ~Truthy(link.active) THEN st
    ELSE IF link.directed \notin Directedness
    THEN Fail(st, Raise("SystemError", "Problem with periodical costs", "links", i))
    ELSE IF link.bus_1 \notin DOMAIN b
    THEN Fail(st, Raise("KeyError", link.bus_1, "links", i))
    ELSE IF link.bus_2 \notin DOMAIN b
    THEN Fail(st, Raise("KeyError", link.bus_2, "links", i))
    ELSE
        LET b1 == b[link.bus_1]
            b2 == b[link.bus_2]
            inputs == DictSet(b1 :> Flow(EmptyDict), b2, Flow(EmptyDict))
            outputs == DictSet(b2 :> flow, b1, flow)
            cf == DictSet(<<b1, b2>> :> link.efficiency,
                          <<b2, b1>>,
                          IF link.directed = "undirected"
                          THEN link.efficiency ELSE QInt(0))
        IN [st EXCEPT !.nodes = Append(@, Link(link.label, inputs, outputs, cf,
                                                <<"links", i>>))]

\* Links.__init__ up to the loop: self.busd is the caller's busd.
LinksInit ==
    /\ pc = "idle"
    /\ "links" \notin done
    /\ self_busd' = busd
    /\ pc' = "links"
    /\ UNCHANGED <<nodes, busd, intern, tables, err, done, nextId, csv, log, energysystem, data, build>>

\* A mutation of LinksRow: the links of the earlier rows taken back when a
\* row fails.
LinksRowRollback(rows, max) ==
    /\ pc = "links"
    /\ ComponentRows < max
    /\ \E link \in rows :
        LET i == Len(tables.links) + 1
            st == LinksBody(St(nodes, self_busd, nextId), link, i)
        IN
        /\ tables' = [tables EXCEPT !.links = Append(@, link)]
        /\ nodes' = IF Failed(st)
                     THEN SelectSeq(nodes, LAMBDA x : x.src[1] # "links")
                     ELSE st.nodes
        /\ err' = st.err
        /\ pc' = IF Failed(st) THEN "failed" ELSE pc
    /\ UNCHANGED <<busd, self_busd, intern, nextId, done, csv, log, energysystem, data, build>>

\* One iteration of the loop of Links.__init__.
LinksRow(rows, max) ==
    /\ pc = "links"
    /\ ComponentRows < max
    /\ \E link \in rows :
        LET i == Len(tables.links) + 1
            st == LinksBody(St(nodes, self_busd, nextId), link, i)
        IN
        /\ tables' = [tables EXCEPT !.links = Append(@, link)]
        /\ nodes' = st.nodes
        /\ err' = st.err
        /\ pc' = IF Failed(st) THEN "failed" ELSE pc
    /\ UNCHANGED <<busd, self_busd, intern, nextId, done, csv, log, energysystem, data, build>>

\* Links.__init__ returns.
LinksReturn ==
    /\ pc = "links"
    /\ pc' = "idle"
    /\ done' = done \cup {"links"}
    /\ UNCHANGED <<nodes, busd, self_busd, intern, tables, err, nextId, csv, log, energysystem, data, build>>

----------------------------------------------------------------------------
(* The build. *)

\* The process starts the build of another scenario, after a build that
\* returned or failed: a fresh node list, a fresh registry, the sheets of the
\* next workbook.  The objects of the classes and the weather file of the
\* build before stay as they are.
NewBuild ==
    /\ pc \in {"idle", "failed"}
    /\ build < MaxBuilds
    /\ build' = build + 1
    /\ pc' = "start"
    /\ nodes' = <<>>
    /\ busd' = EmptyDict
    /\ tables' = [s \in Sheets |-> <<>>]
    /\ err' = NoErr
    /\ done' = {}
    /\ log' = {}
    /\ csv' = IF csv = "absent" THEN "absent" ELSE "stale"
    /\ data' = "none"
    /\ UNCHANGED <<self_busd, intern, nextId, energysystem>>

InitOf(resolutions) ==
    /\ pc = "start"
    /\ nodes = <<>>
    /\ busd = EmptyDict
    /\ self_busd = EmptyDict
    /\ intern = <<>>
    /\ tables = [s \in Sheets |-> <<>>]
    /\ err = NoErr
    /\ done = {}
    /\ nextId = 1
    /\ csv \in {"absent", "stale"}
    /\ log = {}
    /\ energysystem \in [temporal_resolution : resolutions]
    /\ data = "none"
    /\ build = 1

\* The state before buses() is called, for an hourly scenario.
Init == InitOf({"H"})

NextBuses ==
    \/ BusesCall
    \/ BusesRow(BusRows, MaxBusRows)
    \/ BusesReturn

\* buses() alone, over every sheet of at most MaxBusRows rows.
SpecBuses == Init /\ [][NextBuses]_vars

\* A 'buses' sheet of plain rows labelled A: bus B is never created.
PlainBusRows ==
    {b \in BusRows : b.label = "A" /\ b.active = 1 /\ b.excess = 0 /\ b.shortage = 0}

\* A two-step series; the collector heat of oemof.thermal is in W/sqm.
OneSeries == <<Num(0), Num(1)>>
OneSeriesW == <<Num(0), Num(1000)>>

Technologies == {"other", "photovoltaic", "windpower", "timeseries",
                 "solar_thermal_flat_plate", "heat_pump"}

SolarInput(technology) ==
    IF technology \in {"other", "photovoltaic", "windpower", "timeseries"}
    THEN "x" ELSE "A"

SolarSeries(technology, series, seriesW) ==
    IF technology \in {"other", "photovoltaic", "windpower", "timeseries"}
    THEN series ELSE seriesW

\* Source rows of every technology and every value of the fixed flag.
ProfileSourceRows ==
    {SourceRow("s1", tech, fixed, "A", SolarInput(tech),
               SolarSeries(tech, OneSeries, OneSeriesW)) :
        tech \in Technologies, fixed \in {0, 1, 2}}

LoadProfiles == {"x", "timeseries", "h0", "richardson", "none"}

\* Sink rows of every load profile and every value of the fixed flag.
ProfileSinkRows ==
    {SinkRow("d1", profile, fixed, "A", <<1, 2>>, 2, 3) :
        profile \in LoadProfiles, fixed \in {0, 1, 2}}

\* What feedinlib or oemof.thermal may compute for one time step, in units
\* of the peak power: below 0, within [0, 1], above 1, missing.
FeedinValues == {Num(-1), Num(1), Num(2), NaN}

FeedinSeries == [1..MaxT -> FeedinValues]

\* the same series in W/sqm
Times1000(series) ==
    [t \in DOMAIN series |->
        IF series[t].nan THEN NaN ELSE Num(series[t].v * 1000)]

\* Photovoltaic and solar-thermal rows over every feed-in series.
FeedinSourceRows ==
    {SourceRow("s1", "photovoltaic", fixed, "A", "x", series) :
        fixed \in {0, 1}, series \in FeedinSeries}
    \cup
    {SourceRow("s2", "solar_thermal_flat_plate", 1, "A", "A", Times1000(series)) :
        series \in FeedinSeries}

NextFeedin ==
    \/ BusesCall
    \/ BusesRow(PlainBusRows, MaxBusRows)
    \/ BusesReturn
    \/ SourcesInit
    \/ SourcesRow(FeedinSourceRows, MaxFeedinRows)
    \/ SourcesFlush

\* buses(), then Sources over photovoltaic and solar-thermal rows with every
\* feed-in series of MaxT steps.
SpecFeedin == Init /\ [][NextFeedin]_vars

\* The load curves richardsonpy may compute (W per time step): every curve
\* of MaxT steps with some load.
LoadCurves == {c \in [1..MaxT -> {0, 1, 3}] : SumSeq(c) > 0}

\* Richardson rows over every occupant count, and over every load curve and
\* two annual demands.
RichardsonSinkRows ==
    {SinkRow("d1", "richardson", fixed, "A", <<1, 3>>, occupants, 3) :
        fixed \in {0, 1}, occupants \in 1..MaxOccupants}
    \cup
    {SinkRow("d2", "richardson", 1, "A", curve, 2, annual_demand) :
        curve \in LoadCurves, annual_demand \in {3, 10}}

Resolutions == {"H", "h", "min", "s", "D"}

NextRichardson ==
    \/ BusesCall
    \/ BusesRow(PlainBusRows, MaxBusRows)
    \/ BusesReturn
    \/ SinksInit
    \/ SinksRow(RichardsonSinkRows, MaxFeedinRows)
    \/ SinksFlush

\* buses(), then Sinks over richardson rows, for every temporal resolution
\* of the scenario.
SpecRichardson == InitOf(Resolutions) /\ [][NextRichardson]_vars

\* A 'buses' sheet of plain active rows labelled A or B.
LinkBusRows ==
    {b \in BusRows : b.active = 1 /\ b.excess = 0 /\ b.shortage = 0}

\* Link rows of every directedness, between one bus or two, with an odd and
\* an even periodical cost; one inactive row.
LinkRows ==
    {LinkRow("l1", 1, directed, bus[1], bus[2], costs, Q(9, 10)) :
        directed \in {"directed", "undirected", "x"},
        bus \in {<<"A", "B">>, <<"B", "A">>, <<"A", "A">>},
        costs \in {3, 10}}
    \cup {LinkRow("l0", 0, "undirected", "A", "B", 3, Q(9, 10))}

NextLinks ==
    \/ BusesCall
    \/ BusesRow(LinkBusRows, MaxBusRows)
    \/ BusesReturn
    \/ LinksInit
    \/ LinksRow(LinkRows, MaxRows)
    \/ LinksReturn

\* buses(), then Links.
SpecLinks == Init /\ [][NextLinks]_vars

\* Bus rows labelled A: active with both or none of the excess and shortage
\* flags, inactive with both.
FlaggedBusRows ==
    {b \in BusRows : /\ b.label = "A" /\ b.excess = b.shortage
                     /\ b.active = 0 => b.excess = 1}

\* The row with its active flag set or not set.
ActiveOrNot(row) == {[row EXCEPT !.active = active] : active \in {0, 1}}

\* Component rows on bus A, active and inactive: a solar-thermal source and a
\* compression heat pump, which create an auxiliary bus, an unfixed sink, a
\* generic storage and a link.
FlaggedSourceRows ==
    ActiveOrNot(SourceRow("s2", "solar_thermal_flat_plate", 1, "A", "A", OneSeriesW))

FlaggedSinkRows == ActiveOrNot(SinkRow("d1", "x", 0, "A", <<1, 2>>, 2, 3))

FlaggedTransformerRows ==
    ActiveOrNot(TransformerRow("t2", "compression_heat_transformer", "A", "A",
                               "None", "heat_pump", "Air"))

FlaggedStorageRows == ActiveOrNot(StorageRow("b1", "Generic", "A"))

FlaggedLinkRows ==
    ActiveOrNot(LinkRow("l1", 1, "undirected", "A", "A", 10, Q(9, 10)))

NextFlagged ==
    \/ BusesCall
    \/ BusesRow(FlaggedBusRows, MaxBusRows)
    \/ BusesReturn
    \/ SourcesInit
    \/ SourcesRow(FlaggedSourceRows, MaxRows)
    \/ SourcesFlush
    \/ SinksInit
    \/ SinksRow(FlaggedSinkRows, MaxRows)
    \/ SinksFlush
    \/ TransformersInit
    \/ TransformersRow(FlaggedTransformerRows, MaxRows)
    \/ TransformersFlush
    \/ StoragesInit
    \/ StoragesRow(FlaggedStorageRows, MaxRows)
    \/ StoragesFlush
    \/ LinksInit
    \/ LinksRow(FlaggedLinkRows, MaxRows)
    \/ LinksReturn

\* A build over sheets with active and inactive rows.
SpecFlagged == Init /\ [][NextFlagged]_vars

\* Rows that build one node each, with one of two labels, on bus A.
RebuildSourceRows ==
    {SourceRow(label, "other", 0, "A", "x", OneSeries) : label \in {"s1", "s2"}}

RebuildSinkRows ==
    {SinkRow(label, "x", 0, "A", <<1, 2>>, 2, 3) : label \in {"d1", "d2"}}

RebuildTransformerRows ==
    {TransformerRow(label, "GenericTransformer", "A", "A", "None", "x", "x") :
        label \in {"t1", "t2"}}

RebuildStorageRows ==
    {StorageRow(label, "Generic", "A") : label \in {"b1", "b2"}}

NextRebuild ==
    \/ BusesCall
    \/ BusesRow(PlainBusRows, MaxBusRows)
    \/ BusesReturn
    \/ SourcesInit
    \/ SourcesRow(RebuildSourceRows, MaxRows)
    \/ SourcesFlush
    \/ SinksInit
    \/ SinksRow(RebuildSinkRows, MaxRows)
    \/ SinksFlush
    \/ TransformersInit
    \/ TransformersRow(RebuildTransformerRows, MaxRows)
    \/ TransformersFlush
    \/ StoragesInit
    \/ StoragesRow(RebuildStorageRows, MaxRows)
    \/ StoragesFlush
    \/ NewBuild

\* The builds of several scenarios in one process, one after the other: each
\* builder class is constructed once per build.
SpecRebuild == Init /\ [][NextRebuild]_vars

\* What a technology yields over two time steps: within [0, 1], or above 1
\* and below 0.
TechnologySeries == {OneSeries, <<Num(2), Num(-1)>>}

\* Source rows of every technology the builder names and of one it does not
\* name, with both values of the fixed flag and an invalid one.
TechnologySourceRows ==
    {SourceRow("s1", tech, fixed, "A", SolarInput(tech),
               SolarSeries(tech, series, Times1000(series))) :
        tech \in Technologies \cup {"concentrated_solar_power"},
        fixed \in {0, 1, 2}, series \in TechnologySeries}

NextTechnologies ==
    \/ BusesCall
    \/ BusesRow(PlainBusRows, MaxBusRows)
    \/ BusesReturn
    \/ SourcesInit
    \/ SourcesRow(TechnologySourceRows, MaxRows)
    \/ SourcesFlush

\* buses(), then Sources over rows of every technology.
SpecTechnologies == Init /\ [][NextTechnologies]_vars

\* The temperature of a heat source over the time steps: above the row's low
\* temperature of 10 deg C throughout, or equal to it at the first step.
SourceTemps ==
    {[t \in 1..MaxT |-> QInt(15)],
     [t \in 1..MaxT |-> IF t = 1 THEN QInt(10) ELSE QInt(15)]}

\* Compression heat transformer rows of both modes, of every heat source and
\* an unknown one, over both temperature series.
CompressionRows ==
    {[TransformerRow("t2", "compression_heat_transformer", "A", "B", "None",
                     mode, heat_source)
        EXCEPT !.source_temp = source_temp] :
        mode \in Modes, heat_source \in HeatSources \cup {"x"},
        source_temp \in SourceTemps}

NextHeatPumps ==
    \/ BusesCall
    \/ BusesRow(LinkBusRows, MaxBusRows)
    \/ BusesReturn
    \/ TransformersInit
    \/ TransformersRow(CompressionRows, MaxRows)
    \/ TransformersFlush

\* buses(), then Transformers over compression heat transformer rows.
SpecHeatPumps == Init /\ [][NextHeatPumps]_vars

\* A 'buses' sheet of plain rows labelled A, active or not.
BuildBusRows ==
    {b \in BusRows : b.label = "A" /\ b.excess = 0 /\ b.shortage = 0}

\* Component rows that reference bus A, which exists when an active row of
\* the 'buses' sheet has its label, or bus B, which never exists.
BuildSourceRows ==
    {SourceRow("s1", "other", 1, "A", "x", OneSeries),
     SourceRow("s1", "other", 1, "B", "x", OneSeries),
     SourceRow("s2", "solar_thermal_flat_plate", 1, "A", "B", OneSeriesW),
     SourceRow("s2", "solar_thermal_flat_plate", 1, "B", "A", OneSeriesW)}

BuildSinkRows ==
    {SinkRow("d1", "x", 1, "A", <<1, 2>>, 2, 3),
     SinkRow("d1", "x", 1, "B", <<1, 2>>, 2, 3),
     SinkRow("d2", "timeseries", 1, "B", <<1, 2>>, 2, 3),
     SinkRow("d3", "none", 1, "B", <<1, 2>>, 2, 3)}

BuildTransformerRows ==
    {TransformerRow("t1", "GenericTransformer", "A", "A", "None", "x", "x"),
     TransformerRow("t1", "GenericTransformer", "B", "A", "None", "x", "x"),
     TransformerRow("t1", "GenericTransformer", "A", "A", "B", "x", "x"),
     TransformerRow("t2", "compression_heat_transformer", "A", "A", "None",
                    "heat_pump", "Air"),
     TransformerRow("t2", "compression_heat_transformer", "A", "B", "None",
                    "chiller", "Ground"),
     TransformerRow("t2", "compression_heat_transformer", "B", "A", "None",
                    "heat_pump", "x"),
     TransformerRow("t2", "compression_heat_transformer", "A", "A", "None",
                    "x", "Air"),
     TransformerRow("t3", "GenericCHP", "A", "A", "B", "x", "x"),
     TransformerRow("t4", "absorption_heat_transformer", "A", "B", "None",
                    "chiller", "x"),
     TransformerRow("t5", "ExtractionTurbineCHP", "B", "B", "None", "x", "x"),
     TransformerRow("t6", "OffsetTransformer", "A", "B", "None", "x", "x"),
     TransformerRow("t7", "x", "B", "A", "None", "x", "x")}

BuildStorageRows ==
    {StorageRow("b1", "Generic", "A"), StorageRow("b1", "Generic", "B"),
     StorageRow("b2", "Stratified", "B"), StorageRow("b3", "x", "B")}

BuildLinkRows ==
    {LinkRow("l1", 1, "undirected", "A", "A", 10, Q(9, 10)),
     LinkRow("l1", 1, "undirected", "A", "B", 10, Q(9, 10)),
     LinkRow("l1", 1, "directed", "B", "A", 10, Q(9, 10))}

\* Solar-thermal rows of both technologies and both values of the fixed
\* flag, with the electric input on the output bus or on another bus.
ConverterSourceRows ==
    {SourceRow("s2", tech, fixed, output, "A", OneSeriesW) :
        tech \in {"solar_thermal_flat_plate", "concentrated_solar_power"},
        fixed \in {0, 1}, output \in {"A", "B"}}

\* Transformer rows of every type a method creates, between one bus or two,
\* the generic ones without and with a second output.
ConverterTransformerRows ==
    {TransformerRow("t1", "GenericTransformer", "A", output, "None", "x", "x") :
        output \in {"A", "B"}}
    \cup
    {[TransformerRow("t1", "GenericTransformer", "A", "B", output2, "x", "x")
        EXCEPT !.efficiency2 = efficiency2] :
        output2 \in {"A", "B"}, efficiency2 \in {1, 3}}
    \cup
    {TransformerRow("t2", "compression_heat_transformer", "A", "B", "None",
                    "heat_pump", "Air"),
     TransformerRow("t2", "compression_heat_transformer", "A", "B", "None",
                    "chiller", "Ground"),
     TransformerRow("t3", "GenericCHP", "A", "B", "A", "x", "x"),
     TransformerRow("t4", "absorption_heat_transformer", "A", "B", "None",
                    "chiller", "x"),
     TransformerRow("t4", "absorption_heat_transformer", "A", "A", "None",
                    "heat_pump", "x")}

ConverterLinkRows ==
    {LinkRow("l1", 1, "undirected", "A", "B", 10, Q(9, 10)),
     LinkRow("l1", 1, "directed", "A", "B", 10, Q(9, 10)),
     LinkRow("l1", 1, "directed", "A", "A", 10, Q(9, 10))}

NextConverters ==
    \/ BusesCall
    \/ BusesRow(LinkBusRows, MaxBusRows)
    \/ BusesReturn
    \/ SourcesInit
    \/ SourcesRow(ConverterSourceRows, MaxRows)
    \/ SourcesFlush
    \/ TransformersInit
    \/ TransformersRow(ConverterTransformerRows, MaxRows)
    \/ TransformersFlush
    \/ LinksInit
    \/ LinksRow(ConverterLinkRows, MaxRows)
    \/ LinksReturn

\* buses(), then Sources over solar-thermal rows, Transformers and Links, in
\* any order.
SpecConverters == Init /\ [][NextConverters]_vars

\* Commodity source rows and unfixed sink rows on bus A or B.
ScenarioSourceRows ==
    {SourceRow("s1", "other", fixed, output, "x", OneSeries) :
        fixed \in {0, 1}, output \in {"A", "B"}}

ScenarioSinkRows ==
    {[SinkRow("d1", "x", 0, input, <<1, 2>>, 2, 3)
        EXCEPT !.nominal_value = nominal_value] :
        input \in {"A", "B"}, nominal_value \in {20, 50}}

NextScenario ==
    \/ BusesCall
    \/ BusesRow(LinkBusRows, MaxBusRows)
    \/ BusesReturn
    \/ SourcesInit
    \/ SourcesRow(ScenarioSourceRows, MaxRows)
    \/ SourcesFlush
    \/ SinksInit
    \/ SinksRow(ScenarioSinkRows, MaxRows)
    \/ SinksFlush

\* buses(), Sources and Sinks over small scenarios of commodity sources and
\* unfixed sinks.
SpecScenario == Init /\ [][NextScenario]_vars

\* The state before buses() is called when no earlier run has left a
\* weather file.
InitFresh == InitOf({"H"}) /\ csv = "absent"

NextTwoBuilds ==
    \/ BusesCall
    \/ BusesRow(PlainBusRows, MaxBusRows)
    \/ BusesReturn
    \/ SourcesInit
    \/ SourcesRow(ProfileSourceRows, MaxRows)
    \/ SourcesFlush
    \/ SinksInit
    \/ SinksRow(ProfileSinkRows, MaxRows)
    \/ SinksFlush
    \/ SinksInitOfOtherBuild

\* buses(), Sources and Sinks of one build, with their own registry and node
\* collection, interleaved with the build of another scenario.
SpecTwoBuilds == InitFresh /\ [][NextTwoBuilds]_vars

NextBuild ==
    \/ BusesCall
    \/ BusesRow(BuildBusRows, MaxBusRows)
    \/ BusesReturn
    \/ SourcesInit
    \/ SourcesRow(BuildSourceRows, MaxRows)
    \/ SourcesFlush
    \/ SinksInit
    \/ SinksRow(BuildSinkRows, MaxRows)
    \/ SinksFlush
    \/ TransformersInit
    \/ TransformersRow(BuildTransformerRows, MaxRows)
    \/ TransformersFlush
    \/ StoragesInit
    \/ StoragesRow(BuildStorageRows, MaxRows)
    \/ StoragesFlush
    \/ LinksInit
    \/ LinksRow(BuildLinkRows, MaxRows)
    \/ LinksReturn

\* buses(), then the five builder classes, each once, in any order.
SpecBuild == Init /\ [][NextBuild]_vars

NextProfiles ==
    \/ BusesCall
    \/ BusesRow(PlainBusRows, MaxBusRows)
    \/ BusesReturn
    \/ SourcesInit
    \/ SourcesRow(ProfileSourceRows, MaxRows)
    \/ SourcesFlush
    \/ SinksInit
    \/ SinksRow(ProfileSinkRows, MaxRows)
    \/ SinksFlush

\* buses(), then Sources and Sinks in either order, over rows of every
\* technology, load profile and fixed flag.
SpecProfiles == Init /\ [][NextProfiles]_vars

----------------------------------------------------------------------------
(* Readings of the state used by the properties. *)

\* The indices of the rows of 'sheet' iterated so far.
RowsOf(sheet) == DOMAIN tables[sheet]

ActiveRows(sheet) == {i \in RowsOf(sheet) : Truthy(tables[sheet][i].active)}

\* The positions of the nodes of list 'l' with this kind and label.
NodesAt(l, kind, label) ==
    {n \in DOMAIN l : l[n].kind = kind /\ l[n].label = label}

\* The positions of the nodes of list 'l' built from row 'i' of 'sheet'.
NodesFrom(l, sheet, i) == {n \in DOMAIN l : l[n].src = <<sheet, i>>}

BusesReturned == "buses" \in done

----------------------------------------------------------------------------
(* Properties of buses(). *)

\* C1: after buses() has run there is exactly one bus per distinct label of
\* the active rows, in the returned registry and in the node collection, and
\* for each active row the sink '<label>_excess' exists iff the row's excess
\* flag is set and the source '<label>_shortage' exists iff its shortage flag
\* is set.
C1_OneBusPerLabel_ShadowIffFlag ==
    BusesReturned =>
        LET labels == {tables.buses[i].label : i \in ActiveRows("buses")} IN
        /\ DOMAIN busd = labels
        /\ \A l \in labels : Cardinality(NodesAt(nodes, "Bus", l)) = 1
        /\ \A i \in ActiveRows("buses") :
            LET b == tables.buses[i] IN
            /\ NodesAt(nodes, "Sink", b.label \o "_excess") # {}
                   <=> Truthy(b.excess)
            /\ NodesAt(nodes, "Source", b.label \o "_shortage") # {}
                   <=> Truthy(b.shortage)

\* C2: a second active bus row with the label of a bus that already exists
\* fails the build with a configuration error; the registry entry of the
\* first bus is not replaced and no second bus node with that label is
\* appended.
C2_DuplicateBusLabelFails ==
    \A i, j \in ActiveRows("buses") :
        (i < j /\ tables.buses[i].label = tables.buses[j].label) =>
            /\ err.type = "ConfigurationError"
            /\ Cardinality(NodesAt(nodes, "Bus", tables.buses[i].label)) = 1
            /\ \A n \in NodesFrom(nodes, "buses", i) :
                   nodes[n].kind = "Bus" =>
                       self_busd[tables.buses[i].label] = nodes[n].id

----------------------------------------------------------------------------
(* Properties of the flows of sources and sinks. *)

\* Every node built so far: in the node collection or in the running
\* builder's intern list.
Built == {nodes[n] : n \in DOMAIN nodes} \cup {intern[n] : n \in DOMAIN intern}

\* The nodes of this kind built from row i of the sheet.
BuiltFrom(kind, sheet, i) ==
    {x \in Built : x.kind = kind /\ x.src = <<sheet, i>>}

\* The flow attachments of a source (its outputs) or a sink (its inputs).
FlowsOf(x) ==
    {x.outputs[b] : b \in DOMAIN x.outputs} \cup {x.inputs[b] : b \in DOMAIN x.inputs}

ProfileKeys(flow) == DOMAIN flow \cap {"fix", "min", "max"}

FixedOnly(flow) == ProfileKeys(flow) = {"fix"}
MinMaxPair(flow) == ProfileKeys(flow) = {"min", "max"}
MaxOnly(flow) == ProfileKeys(flow) = {"max"}
NoProfile(flow) == ProfileKeys(flow) = {}

FixedIs01(row) == row.fixed \in {0, 1}

FixedMessage(row) == row.label \o " Error in fixed attribute"

\* the rows of the sheet whose fixed flag is neither 0 nor 1
BadFixedRows(sheet) == {i \in ActiveRows(sheet) : ~FixedIs01(tables[sheet][i])}

FailedAtRowNaming(sheet, i, msg) ==
    /\ pc = "failed"
    /\ err.sheet = sheet /\ err.row = i
    /\ err.msg = msg

\* C4 as claimed: an active source row of any technology whose fixed flag is
\* neither 0 nor 1 makes the Source Builder fail with an error naming the
\* row's label, and no source node is created for that row.
C4_Claimed_BadFixedSourceFails ==
    \A i \in BadFixedRows("sources") :
        /\ FailedAtRowNaming("sources", i, FixedMessage(tables.sources[i]))
        /\ BuiltFrom("Source", "sources", i) = {}

\* C4 as amended: an active source row of any technology other than 'other'
\* (the commodity source, which does not read the fixed flag) whose fixed
\* flag is neither 0 nor 1 makes the Source Builder fail with an error naming
\* the row's label, and no source node is created for that row.
C4_BadFixedSourceFails ==
    \A i \in BadFixedRows("sources") :
        tables.sources[i].technology # "other" =>
            /\ FailedAtRowNaming("sources", i, FixedMessage(tables.sources[i]))
            /\ err.type = "SystemError"
            /\ BuiltFrom("Source", "sources", i) = {}
            /\ NodesFrom(nodes, "sources", i) = {}

\* The second source row has a bad fixed flag, after a first row was built.
C4_Witness ==
    /\ 2 \in BadFixedRows("sources")
    /\ tables.sources[2].technology # "other"
    /\ BuiltFrom("Source", "sources", 1) # {}
    /\ pc = "failed"

\* C5: an active time-series, standard-load-profile or richardson sink row
\* whose fixed flag is neither 0 nor 1 makes the Sink Builder raise, and no
\* sink whose flow attachment has no profile is created for it.
C5_BadFixedSinkFails ==
    \A i \in BadFixedRows("demand") :
        tables.demand[i].load_profile \in {"timeseries", "richardson"} \cup Slps =>
            /\ pc = "failed" /\ err.sheet = "demand" /\ err.row = i
            /\ \A x \in BuiltFrom("Sink", "demand", i) :
                   \A flow \in FlowsOf(x) : ~NoProfile(flow)

----------------------------------------------------------------------------
(* Properties of the feed-in series. *)

\* The profile a source was given: 'fix', or 'max' of the min/max pair.
FeedinOf(flow) == IF "fix" \in DOMAIN flow THEN flow.fix ELSE flow.max

InUnitInterval(series) ==
    \A t \in DOMAIN series : ~series[t].nan /\ 0 <= series[t].v /\ series[t].v <= 1

\* What clipping to [0, 1] and filling with 0 make of a raw series.
Clipped(raw) ==
    [t \in DOMAIN raw |->
        IF raw[t].nan THEN Num(0)
        ELSE IF raw[t].v < 0 THEN Num(0)
        ELSE IF raw[t].v > 1 THEN Num(1)
        ELSE raw[t]]

SourcesOfTechnology(techs) ==
    {x \in Built : /\ x.kind = "Source" /\ x.src[1] = "sources"
                   /\ tables.sources[x.src[2]].technology \in techs}

\* C7 as claimed: the feed-in series of every photovoltaic and solar-thermal
\* source lies in [0, 1] and has no missing entry.
C7_Claimed_FeedinInUnitInterval ==
    \A x \in SourcesOfTechnology({"photovoltaic", "solar_thermal_flat_plate",
                                  "concentrated_solar_power"}) :
        \A flow \in FlowsOf(x) : InUnitInterval(FeedinOf(flow))

\* C7 as amended: the feed-in series of every photovoltaic source lies in
\* [0, 1] and has no missing entry: it is the computed series with negative
\* values replaced by 0, values above 1 by 1 and missing values by 0.
C7_PvFeedinClipped ==
    \A x \in SourcesOfTechnology({"photovoltaic"}) :
        \A flow \in FlowsOf(x) :
            /\ InUnitInterval(FeedinOf(flow))
            /\ FeedinOf(flow) = Clipped(tables.sources[x.src[2]].series)

\* A photovoltaic source was built from a series with a negative, a missing
\* or a too large value.
C7_Witness ==
    \E x \in SourcesOfTechnology({"photovoltaic"}) :
        LET raw == tables.sources[x.src[2]].series IN
        /\ \E t \in DOMAIN raw : raw[t].nan
        /\ \E t \in DOMAIN raw : Lt(raw[t], 0) \/ Gt(raw[t], 1)
        /\ x \in {nodes[n] : n \in DOMAIN nodes}

----------------------------------------------------------------------------
(* Properties of the stochastic (richardson) sink. *)

RichardsonSinks ==
    {x \in Built : /\ x.kind = "Sink" /\ x.src[1] = "demand"
                   /\ tables.demand[x.src[2]].load_profile = "richardson"}

\* sum over the time steps of nominal_value * load_profile[t] * timestep / 3600
RECURSIVE Energy(_, _, _)
Energy(nominal_value, load_profile, timestep) ==
    IF load_profile = <<>> THEN QInt(0)
    ELSE QAdd(QMul(nominal_value, Q(Head(load_profile) * timestep, 3600)),
              Energy(nominal_value, Tail(load_profile), timestep))

\* C8: the energy of the scaled profile of every richardson sink equals the
\* row's annual demand, whatever the energy of the generated curve and the
\* number of occupants.
C8_RichardsonEnergyIsAnnualDemand ==
    \A x \in RichardsonSinks :
        \A flow \in FlowsOf(x) :
            QEq(Energy(flow.nominal_value, FeedinOf(flow), x.timestep),
                QInt(tables.demand[x.src[2]].annual_demand))

\* A richardson sink was built in a scenario that is not hourly, from a curve
\* whose own energy is not the annual demand.
C8_Witness ==
    \E x \in RichardsonSinks :
        LET de == tables.demand[x.src[2]] IN
        /\ x.timestep = 60
        /\ SumSeq(de.series) = 4 /\ de.annual_demand = 10
        /\ x \in {nodes[n] : n \in DOMAIN nodes}

Min(a, b) == IF a < b THEN a ELSE b

\* C9: the occupancy model of a richardson row with n occupants is run with
\* min(n, 5) occupants, and a row with more than 5 occupants is built, not
\* rejected.
C9_OccupantsClampedTo5 ==
    /\ \A x \in RichardsonSinks :
           x.number_occupants = Min(tables.demand[x.src[2]].occupants, 5)
    /\ \A i \in ActiveRows("demand") :
           LET de == tables.demand[i] IN
           (/\ de.load_profile = "richardson"
            /\ de.occupants > 5
            /\ energysystem.temporal_resolution \in {"H", "h", "min", "s"}
            /\ de.input \in DOMAIN busd) =>
               /\ BuiltFrom("Sink", "demand", i) # {}
               /\ ~(pc = "failed" /\ err.sheet = "demand" /\ err.row = i)

\* A richardson sink was built from a row with more than 5 occupants.
C9_Witness ==
    \E x \in RichardsonSinks :
        /\ tables.demand[x.src[2]].occupants > 5
        /\ x.number_occupants = 5

----------------------------------------------------------------------------
(* Properties of the links. *)

UndirectedLinks ==
    {x \in Built : x.kind = "Link"
                   /\ tables.links[x.src[2]].directed = "undirected"}

\* C10: the forward and the reverse investment of every link built from an
\* active undirected row carry the same periodical costs, each half of the
\* row's periodical costs, and the reverse conversion factor is the row's
\* efficiency.
C10_UndirectedLinkSharesCosts ==
    \A x \in UndirectedLinks :
        LET link == tables.links[x.src[2]]
            b1 == busd[link.bus_1]
            b2 == busd[link.bus_2]
            forward == x.outputs[b2].investment.ep_costs
            reverse == x.outputs[b1].investment.ep_costs
        IN
        /\ QEq(forward, reverse)
        /\ QEq(QAdd(forward, forward), QInt(link.periodical_costs))
        /\ QEq(QAdd(reverse, reverse), QInt(link.periodical_costs))
        /\ x.conversion_factors[<<b2, b1>>] = link.efficiency
        /\ x.conversion_factors[<<b1, b2>>] = link.efficiency

\* An undirected link between two buses was built from a row with odd
\* periodical costs.
C10_Witness ==
    \E x \in UndirectedLinks :
        LET link == tables.links[x.src[2]] IN
        /\ link.bus_1 # link.bus_2
        /\ link.periodical_costs = 3
        /\ Cardinality(DOMAIN x.outputs) = 2

----------------------------------------------------------------------------
(* Properties of the bus references. *)

ComponentSheets == {"sources", "demand", "transformers", "storages", "links"}

\* The bus labels a component row references.
References(sheet, row) ==
    CASE sheet = "sources" ->
            IF row.technology = "other" THEN {row.output}
            ELSE {row.output, row.input}
      [] sheet = "demand" -> {row.input}
      [] sheet = "transformers" ->
            {row.input, row.output}
            \cup (IF row.output2 \in {"None", "none", "x"} THEN {}
                  ELSE {row.output2})
      [] sheet = "storages" -> {row.bus}
      [] sheet = "links" -> {row.bus_1, row.bus_2}

\* The labels of the active rows of the 'buses' sheet.
BusRegistry == {tables.buses[i].label : i \in ActiveRows("buses")}

\* The active rows iterated so far that reference a bus not in the registry.
DanglingRows ==
    {r \in UNION {{<<sheet, i>> : i \in ActiveRows(sheet)} : sheet \in ComponentSheets} :
        ~(References(r[1], tables[r[1]][r[2]]) \subseteq BusRegistry)}

\* The row is of a category a method of its builder class creates.
Implemented(sheet, row) ==
    CASE sheet = "demand" ->
            row.load_profile \in {"x", "timeseries", "richardson"} \cup Slps
      [] sheet = "transformers" -> row.transformer_type \in TransformerTypes
      [] sheet = "storages" -> row.storage_type \in StorageTypes
      [] OTHER -> TRUE

AbortedAt(sheet, i) ==
    /\ pc = "failed"
    /\ err # NoErr
    /\ err.sheet = sheet
    /\ err.row = i

\* C6 as claimed: every active component row that references a bus label not
\* in the registry aborts the build, and no node of that row is in the node
\* collection.
C6_Claimed_DanglingRowAborts ==
    \A r \in DanglingRows :
        /\ AbortedAt(r[1], r[2])
        /\ NodesFrom(nodes, r[1], r[2]) = {}

\* C6: every active component row of a category its builder creates that
\* references a bus label not in the registry aborts the build with an error
\* raised for that row; a row of any other category is passed over and the
\* build goes on; in both cases no node of that row is in the node collection.
C6_ImplementedDanglingRowAborts ==
    \A r \in DanglingRows :
        /\ Implemented(r[1], tables[r[1]][r[2]]) => AbortedAt(r[1], r[2])
        /\ NodesFrom(nodes, r[1], r[2]) = {}

\* The second row of the 'transformers' sheet referenced a missing bus after
\* the first row had created its transformer in the intern list.
C6_Witness ==
    /\ AbortedAt("transformers", 2)
    /\ err.type = "KeyError"
    /\ <<"transformers", 2>> \in DanglingRows
    /\ NodesFrom(intern, "transformers", 1) # {}

DirectedLinks ==
    {x \in Built : x.kind = "Link"
                   /\ tables.links[x.src[2]].directed = "directed"}

\* C11: in every link built from an active directed row the conversion
\* factor from bus_1 to bus_2 is the row's efficiency, the one from bus_2 to
\* bus_1 is 0, the forward investment carries the row's periodical costs
\* unhalved, and the reverse flow has an investment with the same costs and
\* offset.
C11_DirectedLinkOneWay ==
    \A x \in DirectedLinks :
        LET link == tables.links[x.src[2]]
            b1 == busd[link.bus_1]
            b2 == busd[link.bus_2]
            forward == x.outputs[b2].investment
            reverse == x.outputs[b1].investment
        IN
        /\ x.conversion_factors[<<b1, b2>>] = link.efficiency
        /\ x.conversion_factors[<<b2, b1>>] = QInt(0)
        /\ QEq(forward.ep_costs, QInt(link.periodical_costs))
        /\ reverse.ep_costs = forward.ep_costs
        /\ reverse.periodical_constraint_costs = forward.periodical_constraint_costs
        /\ reverse.offset = forward.offset

\* C11 as amended: the same for every directed row that joins two different
\* buses, where the reverse investment is the forward one field by field;
\* when bus_1 and bus_2 are one bus, the link has one output flow and its
\* one conversion factor is 0.
C11_DirectedLinkBetweenTwoBuses ==
    \A x \in DirectedLinks :
        LET link == tables.links[x.src[2]]
            b1 == busd[link.bus_1]
            b2 == busd[link.bus_2]
        IN
        /\ QEq(x.outputs[b2].investment.ep_costs, QInt(link.periodical_costs))
        /\ x.outputs[b1].investment = x.outputs[b2].investment
        /\ x.conversion_factors[<<b2, b1>>] = QInt(0)
        /\ IF link.bus_1 # link.bus_2
           THEN /\ x.conversion_factors[<<b1, b2>>] = link.efficiency
                /\ Cardinality(DOMAIN x.outputs) = 2
           ELSE /\ Cardinality(DOMAIN x.outputs) = 1
                /\ Cardinality(DOMAIN x.conversion_factors) = 1

\* A directed link from A to B was built from a row with odd periodical
\* costs.
C11_Witness ==
    \E x \in DirectedLinks :
        LET link == tables.links[x.src[2]] IN
        /\ link.bus_1 = "A" /\ link.bus_2 = "B"
        /\ link.periodical_costs = 3
        /\ x.conversion_factors[<<busd["B"], busd["A"]>>] = QInt(0)

\* C12: an active link row whose directedness is neither 'directed' nor
\* 'undirected' fails the build with an error raised for that row, and no
\* link node of that row is in the node collection.
C12_UnknownDirectednessFails ==
    \A i \in ActiveRows("links") :
        tables.links[i].directed \notin {"directed", "undirected"} =>
            /\ AbortedAt("links", i)
            /\ err.type = "SystemError"
            /\ NodesFrom(nodes, "links", i) = {}

\* The second row of the 'links' sheet had an unknown directedness after the
\* first row had appended its link.
C12_Witness ==
    /\ AbortedAt("links", 2)
    /\ err.msg = "Problem with periodical costs"
    /\ NodesFrom(nodes, "links", 1) # {}

----------------------------------------------------------------------------
(* Properties of the transformers. *)

\* The active rows of the 'transformers' sheet iterated so far whose type no
\* method creates.
SkippedTransformerRows ==
    {i \in ActiveRows("transformers") :
        tables.transformers[i].transformer_type \notin TransformerTypes}

\* C13: for every active transformer row of an unrecognized or not
\* implemented type a warning is recorded, no node and no bus of that row
\* exists, in the builder's list, the node collection or the registry, and no
\* error is raised for it: the loop goes on with the next row.
C13_UnsupportedTransformerSkipped ==
    \A i \in SkippedTransformerRows :
        LET t == tables.transformers[i] IN
        /\ <<"transformers", i>> \in log
        /\ NodesFrom(nodes, "transformers", i) = {}
        /\ NodesFrom(intern, "transformers", i) = {}
        /\ \A mode \in Modes : (t.label \o Temp(mode) \o "_bus") \notin DOMAIN busd
        /\ ~AbortedAt("transformers", i)

\* The first transformer row was of a type that is not implemented, and the
\* second row created its transformer.
C13_Witness ==
    /\ 1 \in SkippedTransformerRows
    /\ tables.transformers[1].transformer_type = "ExtractionTurbineCHP"
    /\ \E n \in NodesFrom(intern, "transformers", 2) : intern[n].kind = "Transformer"

\* The active compression heat transformer rows iterated so far with an
\* unrecognized heat source or an unrecognized mode.
BadCompressionRows ==
    {i \in ActiveRows("transformers") :
        LET t == tables.transformers[i] IN
        /\ t.transformer_type = "compression_heat_transformer"
        /\ (t.heat_source \notin {"Ground", "GroundWater", "Air", "Water"}
            \/ t.mode \notin {"heat_pump", "chiller"})}

\* C14: an active compression heat transformer row with an unrecognized heat
\* source or an unrecognized mode fails the build with the configuration
\* error (the SystemError the builders raise for a bad cell), and no
\* transformer of that row is created.
C14_BadHeatSourceOrModeFails ==
    \A i \in BadCompressionRows :
        /\ AbortedAt("transformers", i)
        /\ err.type = "SystemError"
        /\ BuiltFrom("Transformer", "transformers", i) = {}

----------------------------------------------------------------------------
(* Properties of the conversion factors. *)

\* The transformers and links built so far.
Converters == {x \in Built : x.kind \in {"Transformer", "Link"}}

\* The buses attached to a component.
Attached(x) == DOMAIN x.inputs \cup DOMAIN x.outputs

\* The buses the conversion factors of a component are given for: the keys
\* of a transformer, the bus a direction of a link starts from.
Covered(x) ==
    IF x.kind = "Link" THEN {k[1] : k \in DOMAIN x.conversion_factors}
    ELSE DOMAIN x.conversion_factors

TypeOf(x) ==
    IF x.src[1] = "sources" THEN "collector"
    ELSE tables.transformers[x.src[2]].transformer_type

----------------------------------------------------------------------------
(* Properties of the generic transformer. *)

GenericTransformers ==
    {x \in Built : /\ x.kind = "Transformer" /\ x.src[1] = "transformers"
                   /\ TypeOf(x) = "GenericTransformer"}

\* capacity * efficiency2 / efficiency
Scaled(t, capacity) == Q(capacity * t.efficiency2, t.efficiency)

----------------------------------------------------------------------------
(* The scenario of one bus, one commodity source and one unfixed sink. *)

\* The build of the scenario has ended: one active bus B without excess and
\* shortage, one commodity source on B with capacity bounds 0 and 100 and
\* existing capacity 0, one unfixed sink on B with nominal value 50.
ScenarioBuilt ==
    /\ pc = "idle"
    /\ {"buses", "sources", "sinks"} \subseteq done
    /\ Len(tables.buses) = 1 /\ Len(tables.sources) = 1 /\ Len(tables.demand) = 1
    /\ tables.buses[1].label = "B"
    /\ LET so == tables.sources[1] IN
          /\ so.technology = "other" /\ so.output = "B"
          /\ so.min_invest = 0 /\ so.max_invest = 100 /\ so.existing = 0
    /\ LET de == tables.demand[1] IN
          /\ de.load_profile = "x" /\ de.input = "B" /\ de.nominal_value = 50

\* The bounds of a flow at time step t: the 'min' and 'max' it was given, 0
\* and 1 where it was given none, times its nominal value.
BoundsAt(flow, t) ==
    LET lo == IF "min" \in DOMAIN flow THEN flow.min[t] ELSE 0
        hi == IF "max" \in DOMAIN flow THEN flow.max[t] ELSE 1
    IN <<lo * flow.nominal_value, hi * flow.nominal_value>>

ScenarioFlows ==
    /\ \A n \in NodesFrom(nodes, "sources", 1) :
           \A b \in DOMAIN nodes[n].outputs :
               LET inv == nodes[n].outputs[b].investment IN
               inv.existing = 0 /\ inv.minimum = 0 /\ inv.maximum = 100
    /\ \A n \in NodesFrom(nodes, "demand", 1) :
           \A b \in DOMAIN nodes[n].inputs :
               LET flow == nodes[n].inputs[b] IN
               /\ "fix" \notin DOMAIN flow
               /\ \A t \in 1..MaxT : BoundsAt(flow, t) = <<0, 50>>

\* C17 as claimed: the node collection of the scenario has 2 nodes, the
\* investment of the source's output has existing 0, minimum 0, maximum 100,
\* and the sink's flow is bounded to [0, 50] at every time step.
C17_Claimed_ScenarioHasTwoNodes ==
    ScenarioBuilt => (Len(nodes) = 2 /\ ScenarioFlows)

\* C17 as amended: the node collection of the scenario has 3 nodes, the bus B
\* first, then the source and the sink, each attached to B; the investment
\* and the bounds are as claimed, the sink's flow carrying the nominal value
\* 50 and no profile.
C17_ScenarioHasThreeNodes ==
    ScenarioBuilt =>
        /\ Len(nodes) = 3
        /\ nodes[1].kind = "Bus" /\ nodes[1].label = "B"
        /\ {nodes[2].kind, nodes[3].kind} = {"Source", "Sink"}
        /\ Cardinality(NodesFrom(nodes, "sources", 1)) = 1
        /\ Cardinality(NodesFrom(nodes, "demand", 1)) = 1
        /\ \A n \in NodesFrom(nodes, "sources", 1) : DOMAIN nodes[n].outputs = {nodes[1].id}
        /\ \A n \in NodesFrom(nodes, "demand", 1) :
               /\ DOMAIN nodes[n].inputs = {nodes[1].id}
               /\ nodes[n].inputs[nodes[1].id] = [nominal_value |-> 50]
        /\ ScenarioFlows

\* The scenario was built, the sink before the source.
C17_Witness ==
    /\ ScenarioBuilt
    /\ Len(nodes) = 3
    /\ nodes[2].kind = "Sink"

----------------------------------------------------------------------------
(* Properties of a failed build. *)

\* The builders that keep what they create in a list of their own until
\* their loop has ended.
ListSheets == {"sources", "demand", "transformers", "storages"}

IsPrefix(p, q) == Len(p) <= Len(q) /\ \A n \in DOMAIN p : p[n] = q[n]

\* C18 as claimed: when a builder has failed on a row, every node it built
\* from the earlier rows of its sheet is in the node collection.
C18_Claimed_EarlierRowsInNodes ==
    (pc = "failed" /\ err.row > 0) =>
        \A i \in 1..(err.row - 1) :
            \A x \in {y \in Built : y.src = <<err.sheet, i>>} :
                \E n \in DOMAIN nodes : nodes[n] = x

\* C18 as amended: no step removes or changes a node of the node collection;
\* when Links has failed on a row, the links of its earlier rows are in the
\* collection; when Sources, Sinks, Transformers or Storages has failed on a
\* row, what it built from the earlier rows is in its own list and no node
\* of its sheet is in the collection.
C18_NoRollback ==
    /\ [](pc = "failed" =>
            /\ err.sheet = "links" =>
                   \A i \in ActiveRows("links") :
                       i < err.row => NodesFrom(nodes, "links", i) # {}
            /\ err.sheet \in ListSheets =>
                   /\ \A i \in RowsOf(err.sheet) : NodesFrom(nodes, err.sheet, i) = {}
                   /\ \A x \in {y \in Built : y.src[1] = err.sheet} :
                          \E n \in DOMAIN intern : intern[n] = x)
    /\ [][IsPrefix(nodes, nodes')]_vars

\* Sources failed on its second row after the first row had created a
\* source, which is in the list of the builder and not in the node
\* collection.
C18_Witness ==
    /\ AbortedAt("sources", 2)
    /\ NodesFrom(intern, "sources", 1) # {}
    /\ NodesFrom(nodes, "sources", 1) = {}
    /\ nodes # <<>>

----------------------------------------------------------------------------
(* Properties of interleaved builds. *)

\* C19: a build interleaved with the build of another scenario, each with its
\* own registry and node collection, yields what it yields alone: the
\* weather data its builders derive the profiles from are its own, never
\* those of the other scenario, and the other build does not let a builder
\* start that fails alone.
C19_InterleavedBuildReadsOwnWeather ==
    data \in {"none", "own"}

----------------------------------------------------------------------------
(* Properties of solar-thermal sources. *)

\* The list the Source Builder adds its nodes to: its intern list, which is
\* appended to the shared collection when the builder returns.
SourceList == IF "sources" \in done THEN nodes ELSE intern

\* The rows of the 'sources' sheet that are solar-thermal with a fixed flag
\* of 0 or 1.
SolarThermalRows ==
    {i \in ActiveRows("sources") :
        /\ tables.sources[i].technology \in {"solar_thermal_flat_plate",
                                             "concentrated_solar_power"}
        /\ tables.sources[i].fixed \in {0, 1}}

\* Row i added exactly three nodes, in this order: the auxiliary bus, the
\* source on the auxiliary bus alone, the collector converter between
\* {auxiliary bus, bus 'input'} and {bus 'output'}, with the three factors.
ThreeCollectorNodes(i, input, output) ==
    LET l == SourceList
        so == tables.sources[i]
        keep == QSub(QInt(1), so.peripheral_losses)
    IN
    \E k \in DOMAIN l :
        /\ NodesFrom(l, "sources", i) = {k, k + 1, k + 2}
        /\ l[k].kind = "Bus" /\ l[k].label = so.label \o "_bus"
        /\ l[k + 1].kind = "Source" /\ l[k + 1].label = so.label
        /\ DOMAIN l[k + 1].outputs = {l[k].id}
        /\ l[k + 2].kind = "Transformer"
        /\ l[k + 2].label = so.label \o "_collector"
        /\ DOMAIN l[k + 2].inputs = {l[k].id, input}
        /\ DOMAIN l[k + 2].outputs = {output}
        /\ DOMAIN l[k + 2].conversion_factors = {l[k].id, input, output}
        /\ l[k + 2].conversion_factors[l[k].id] = QInt(1)
        /\ l[k + 2].conversion_factors[input] = QMul(so.electric_consumption, keep)
        /\ l[k + 2].conversion_factors[output] = keep

\* C20 as claimed: every solar-thermal source row with a fixed flag of 0 or
\* 1 adds exactly three nodes in this order: the auxiliary bus
\* '<label>_bus', the source '<label>' whose only output is the auxiliary
\* bus, and the converter '<label>_collector' with inputs {auxiliary bus,
\* electric input bus}, output {output bus} and the conversion factors 1,
\* consumption*(1-losses) and (1-losses).  The row's electric input bus and
\* output bus are the buses of the registry the row names.
C20_Claimed_SolarThermalAddsThreeNodes ==
    \A i \in SolarThermalRows :
        LET so == tables.sources[i] IN
        (/\ so.input \in DOMAIN busd
         /\ so.output \in DOMAIN busd)
        => ThreeCollectorNodes(i, busd[so.input], busd[so.output])

\* C20 as amended: every solar-thermal source row with a fixed flag of 0 or
\* 1 whose electric input and output are two different buses of the registry
\* adds exactly these three nodes in this order, with these factors.
C20_SolarThermalBetweenTwoBuses ==
    \A i \in SolarThermalRows :
        LET so == tables.sources[i] IN
        (/\ so.input \in DOMAIN busd
         /\ so.output \in DOMAIN busd
         /\ busd[so.input] # busd[so.output])
        => ThreeCollectorNodes(i, busd[so.input], busd[so.output])

\* A solar-thermal row between two different buses has been processed, and
\* another one was processed before it.
C20_Witness ==
    \E i \in SolarThermalRows :
        LET so == tables.sources[i] IN
        /\ i > 1
        /\ 1 \in SolarThermalRows
        /\ so.fixed = 0
        /\ so.input \in DOMAIN busd
        /\ so.output \in DOMAIN busd
        /\ busd[so.input] # busd[so.output]
        /\ Len(SourceList) >= 6

----------------------------------------------------------------------------
(* Properties of compression heat transformers. *)

\* The transformers built from compression heat transformer rows.
CompressionTransformers ==
    {x \in Built :
        /\ x.kind = "Transformer"
        /\ x.src[1] = "transformers"
        /\ tables.transformers[x.src[2]].transformer_type
               = "compression_heat_transformer"}

\* C23: for every compression transformer row in chiller mode and every heat
\* source, the hot-side temperature series handed to the COP calculation
\* differs from the row's low temperature at every time step.
C23_ChillerHotSideAboveLow ==
    \A x \in CompressionTransformers :
        LET tf == tables.transformers[x.src[2]] IN
        tf.mode = "chiller" =>
            \A t \in DOMAIN x.calc_cops.temp_high :
                ~QEq(x.calc_cops.temp_high[t], tf.temperature_low)

\* The buses in the builder's node list that row i of the transformers sheet
\* created.
BusesOfRow(i) ==
    {intern[n].id : n \in {m \in NodesFrom(intern, "transformers", i) :
                              intern[m].kind = "Bus"}}

\* C24: when the compression builder fails on a row because of an
\* unrecognized heat source, nothing built for that row remains: the
\* registry has no '<label>_low_temp_bus' / '<label>_high_temp_bus' entry of
\* the row and the builder's node list has no node of the row.
C24_FailedHeatSourceLeavesNothing ==
    \A i \in RowsOf("transformers") :
        LET tf == tables.transformers[i] IN
        (/\ AbortedAt("transformers", i)
         /\ err.type = "SystemError"
         /\ tf.transformer_type = "compression_heat_transformer")
        => /\ NodesFrom(intern, "transformers", i) = {}
           /\ \A mode \in Modes :
                LET l == tf.label \o Temp(mode) \o "_bus" IN
                l \in DOMAIN busd => busd[l] \notin BusesOfRow(i)

----------------------------------------------------------------------------
(* Properties of the choice of the source builder. *)

NamedTechnologies == {"other", "photovoltaic", "windpower", "timeseries"}

\* The profile of a flow: its 'fix' series, or its 'max'.
ProfileOf(flow) == IF "fix" \in DOMAIN flow THEN flow.fix ELSE flow.max

\* The flow is the one the builder of this technology attaches: 'other' the
\* constant bounds 0 and 1, 'photovoltaic' the feed-in clipped to [0, 1],
\* 'windpower' the feed-in as computed, 'timeseries' the columns of the
\* time_series sheet with '.min' as the lower bound.
FlowOfTechnology(so, flow) ==
    CASE so.technology = "other" ->
            ProfileKeys(flow) = {"min", "max"} /\ flow.min = 0 /\ flow.max = 1
      [] so.technology = "photovoltaic" ->
            /\ \A t \in DOMAIN so.series :
                  /\ ~Lt(ProfileOf(flow)[t], 0) /\ ~Gt(ProfileOf(flow)[t], 1)
                  /\ (~Lt(so.series[t], 0) /\ ~Gt(so.series[t], 1))
                        => ProfileOf(flow)[t] = so.series[t]
            /\ "min" \in DOMAIN flow => flow.min = 0
      [] so.technology = "windpower" ->
            /\ ProfileOf(flow) = so.series
            /\ "min" \in DOMAIN flow => flow.min = 0
      [] so.technology = "timeseries" ->
            /\ ProfileOf(flow) = so.series
            /\ "min" \in DOMAIN flow => flow.min = so.series_min

\* C22: for every active source row the technology selects the builder:
\* 'other', 'photovoltaic', 'windpower' and 'timeseries' their own, which
\* adds at most the source; any other value the solar-thermal builder, which
\* first adds the auxiliary bus '<label>_bus' and registers it, whatever
\* the technology and the fixed flag are.
C22_TechnologySelectsBuilder ==
    \A i \in ActiveRows("sources") :
        LET so == tables.sources[i]
            l == SourceList
            ns == NodesFrom(l, "sources", i)
        IN
        IF so.technology \in NamedTechnologies
        THEN /\ \A n \in ns : l[n].kind = "Source" /\ l[n].label = so.label
             /\ Cardinality(ns) <= 1
             /\ ns = {} => AbortedAt("sources", i)
             /\ \A n \in ns : \A b \in DOMAIN l[n].outputs :
                    FlowOfTechnology(so, l[n].outputs[b])
        ELSE /\ ns # {}
             /\ \A n \in ns :
                  (\A m \in ns : n <= m) =>
                      /\ l[n].kind = "Bus"
                      /\ l[n].label = so.label \o "_bus"
                      /\ ("sources" \notin done /\ i = Len(tables.sources))
                            => /\ (so.label \o "_bus") \in DOMAIN self_busd
                               /\ self_busd[so.label \o "_bus"] = l[n].id

\* A row of an unnamed technology has failed after its auxiliary bus was
\* registered, following a photovoltaic row whose feed-in was clipped.
C22_Witness ==
    /\ Len(tables.sources) = 2
    /\ tables.sources[1].technology = "photovoltaic"
    /\ tables.sources[1].series[1] = Num(2)
    /\ NodesFrom(SourceList, "sources", 1) # {}
    /\ tables.sources[2].technology = "heat_pump"
    /\ AbortedAt("sources", 2)
    /\ "s1_bus" \in DOMAIN self_busd

----------------------------------------------------------------------------
(* Properties of successive constructions. *)

\* The sheet a builder class iterates.
SheetOf(builder) == IF builder = "sinks" THEN "demand" ELSE builder

InternBuilders == {"sources", "sinks", "transformers", "storages"}

\* C25: for two successive constructions of the same builder class in one
\* process, the nodes the second construction appends to its node collection
\* are exactly the nodes built from its own rows: one node per row, with the
\* row's label, and no node accumulated by the first construction.
C25_SecondConstructionAppendsOwnNodes ==
    \A builder \in InternBuilders \cap done :
        LET sheet == SheetOf(builder) IN
        /\ \A n \in DOMAIN nodes :
              nodes[n].src[1] = sheet => nodes[n].src[2] \in RowsOf(sheet)
        /\ \A i \in RowsOf(sheet) :
              /\ Cardinality(NodesFrom(nodes, sheet, i)) = 1
              /\ \A n \in NodesFrom(nodes, sheet, i) :
                    nodes[n].label = tables[sheet][i].label

\* In the second build of the process the Sinks class has been constructed
\* and has returned, over two rows.
C25_Witness ==
    /\ build = 2
    /\ "sinks" \in done
    /\ Len(tables.demand) = 2
    /\ Len(nodes) >= 2

----------------------------------------------------------------------------
(* Properties of inactive rows. *)

\* The rows of the sheet whose active flag is not set.
InactiveRows(sheet) == {i \in RowsOf(sheet) : tables[sheet][i].active = 0}

\* The registries: the one buses() returned and the one of the running call.
Registries == {busd, self_busd}

\* C26: in every table a row whose active flag is not set produces nothing:
\* no node (bus, auxiliary bus, component, excess sink or shortage source) is
\* built from it, every bus in a registry was built from an active row, and
\* the label of an inactive bus row is registered only for an active row.
C26_InactiveRowProducesNothing ==
    /\ \A sheet \in Sheets : \A i \in InactiveRows(sheet) :
          \A x \in Built : x.src # <<sheet, i>>
    /\ \A d \in Registries : \A l \in DOMAIN d :
          \E x \in Built :
              /\ x.kind = "Bus" /\ x.id = d[l]
              /\ x.src[2] \notin InactiveRows(x.src[1])
    /\ \A i \in InactiveRows("buses") :
          LET l == tables.buses[i].label IN
          l \in DOMAIN self_busd =>
              \E j \in RowsOf("buses") \ InactiveRows("buses") :
                  tables.buses[j].label = l

\* An inactive bus row with its excess and shortage flags set, an inactive
\* compression heat pump row and an active row after it have been iterated.
C26_Witness ==
    /\ \E i \in InactiveRows("buses") :
          tables.buses[i].excess = 1 /\ tables.buses[i].shortage = 1
    /\ 1 \in InactiveRows("transformers")
    /\ 2 \in RowsOf("transformers") \ InactiveRows("transformers")
    /\ "transformers" \in done

----------------------------------------------------------------------------
(* Properties of the order of the node collection. *)

\* The place of a node among the nodes of a bus row: the bus, its excess
\* sink, its shortage source.
BusRowRank(x) ==
    CASE x.kind = "Bus" -> 1
      [] x.kind = "Sink" -> 2
      [] OTHER -> 3

\* The node collection holds the nodes of one sheet side by side and in the
\* order of the rows of the sheet, those of a bus row as bus, excess sink,
\* shortage source.
InRowOrder ==
    \A m, n \in DOMAIN nodes :
        (m < n /\ nodes[m].src[1] = nodes[n].src[1]) =>
            /\ nodes[m].src[2] <= nodes[n].src[2]
            /\ \A k \in m..n : nodes[k].src[1] = nodes[m].src[1]
            /\ (nodes[m].src[1] = "buses" /\ nodes[m].src[2] = nodes[n].src[2])
                  => BusRowRank(nodes[m]) < BusRowRank(nodes[n])

\* C27: every builder only appends to the shared node collection: no step
\* removes, moves or changes a node that is in it, and what a builder adds
\* comes after the nodes that were there, in the order of the rows of its
\* table (for a bus row: the bus, its excess sink, its shortage source).
C27_AppendOnlyInRowOrder ==
    /\ []InRowOrder
    /\ [][IsPrefix(nodes, nodes')]_vars

\* A bus row has added its bus, excess sink and shortage source, and two
\* builders have added their nodes after them.
C27_Witness ==
    /\ \E i \in RowsOf("buses") : Cardinality(NodesFrom(nodes, "buses", i)) = 3
    /\ "sources" \in done
    /\ NodesFrom(nodes, "sources", 1) # {}
    /\ \E n \in DOMAIN nodes : nodes[n].src[1] \notin {"buses", "sources"}

----------------------------------------------------------------------------
(* Properties of the registry handed to Sources and Sinks. *)

\* The step belongs to a construction of Sources or Sinks: it starts one,
\* iterates a row or ends one.
SourcesOrSinksStep ==
    \/ pc \in {"sources", "sinks"}
    \/ pc' \in {"sources", "sinks"}
    \/ (pc' = "failed" /\ err'.sheet \in {"sources", "demand"})

\* The auxiliary bus of every solar-thermal row that was iterated is a node
\* the builder created, and no label of the registry stands for it.
AuxiliaryBusOutsideRegistry ==
    \A i \in SolarThermalRows :
        LET l == tables.sources[i].label \o "_bus" IN
        \E n \in NodesFrom(SourceList, "sources", i) :
            /\ SourceList[n].kind = "Bus" /\ SourceList[n].label = l
            /\ \A k \in DOMAIN busd : busd[k] # SourceList[n].id

\* C28: the Sources and Sinks builders leave the bus registry passed to them
\* unchanged: no step of their construction changes its labels or its bus
\* objects, also when a solar-thermal row created an auxiliary bus
\* '<label>_bus', which is in the node list and not in the registry.
C28_SourcesAndSinksLeaveRegistry ==
    /\ []AuxiliaryBusOutsideRegistry
    /\ [][SourcesOrSinksStep => busd' = busd]_vars

\* Sources has returned after a solar-thermal row, its auxiliary bus is in
\* the node collection, and Sinks has returned as well.
C28_Witness ==
    /\ {"sources", "sinks"} \subseteq done
    /\ SolarThermalRows # {}
    /\ \E n \in DOMAIN nodes : nodes[n].kind = "Bus" /\ nodes[n].label = "s2_bus"
    /\ DOMAIN busd # {}
    /\ \E i \in RowsOf("demand") : NodesFrom(nodes, "demand", i) # {}

----------------------------------------------------------------------------
(* Properties of the weather data within one build. *)

WeatherBuilders == {"sources", "sinks", "transformers", "storages"}

\* C29: within one build every builder that uses weather data reads the
\* weather of the build's own workbook, in whatever order the builders are
\* constructed: once one of them runs or has returned, the data read are the
\* build's own, and none fails because the weather is not there yet.
C29_WeatherOfOwnWorkbookInAnyOrder ==
    /\ (pc \in WeatherBuilders \/ done \cap WeatherBuilders # {}) =>
            data \in {"none", "own"}
    /\ pc = "failed" => err.type # "FileNotFoundError"

----------------------------------------------------------------------------
(* Properties of rows no branch of a loop names. *)

\* The active sink rows iterated so far whose load profile no branch names,
\* and the active storage rows whose storage type no branch names.
UnnamedSinkRows ==
    {i \in ActiveRows("demand") :
        tables.demand[i].load_profile
            \notin {"x", "timeseries", "richardson"} \cup Slps}

UnnamedStorageRows ==
    {i \in ActiveRows("storages") :
        tables.storages[i].storage_type \notin {"Generic", "Stratified"}}

\* The row has left nothing: no node in the builder's list or the node
\* collection, no error, no warning.
LeftNothing(sheet, i) ==
    /\ \A x \in Built : x.src # <<sheet, i>>
    /\ ~AbortedAt(sheet, i)
    /\ <<sheet, i>> \notin log

\* C30: an active sink row whose load profile is none of 'x', 'timeseries',
\* 'richardson' or a standard load profile, and an active storage row whose
\* type is neither 'Generic' nor 'Stratified', produce no node, raise no
\* error and record no warning; the builder goes on with the next row.
C30_UnnamedSinkAndStorageRowsSkipped ==
    /\ \A i \in UnnamedSinkRows : LeftNothing("demand", i)
    /\ \A i \in UnnamedStorageRows : LeftNothing("storages", i)

\* Sinks has iterated a row with an unnamed load profile and Storages a row
\* of an unnamed type; both loops went on to their end and the builders
\* returned.
C30_Witness ==
    /\ 1 \in UnnamedSinkRows
    /\ 1 \in UnnamedStorageRows
    /\ {"sinks", "storages"} \subseteq done
    /\ pc = "idle"

====
